---- MODULE Spec2Model ----
(***************************************************************************)
(* Model of the prompt rewriter and AI dispatcher (src/src/lib/AIserver.ts) *)
(* and of the streaming relay (src/src/app/api/ai/stream/route.ts).         *)
(*                                                                          *)
(* Text is modelled as a sequence of tokens.  A token is either one of the  *)
(* fixed marker strings the code searches for (written in ASCII here) or an *)
(* ordinary character.                                                      *)
(***************************************************************************)
EXTENDS Integers, Sequences, FiniteSets, TLC

(***************************************************************************)
(* Bounds of the model                                                      *)
(***************************************************************************)
MaxLen == 4
MaxMsgs == 2
MaxLayers == 5
MaxLines == 3
MaxPrompts == 2
MaxOps == 3
MaxTime == 2
MaxWords == 2

(***************************************************************************)
(* Tokens                                                                   *)
(***************************************************************************)
\* '__ENCRYPTED_PROMPT_ID__:'
SENT == "__ENCRYPTED_PROMPT_ID__:"
\* '<提示词内容>' and '</提示词内容>'
OPEN == "<content>"
CLOSE == "</content>"
\* '<通用规则2>' and '</通用规则2>'
RULE2 == "<rule2>"
RULE2END == "</rule2>"
\* '<通用规则>'
RULE == "<rule>"
\* the anti-leak instruction text and the punctuation instruction text
LEAKTEXT == "leak-text"
PUNCTTEXT == "punct-text"
NL == "\n"
\* the ciphertext prefix marker
U2F == "U2F"
\* the replacement pattern $& of String.prototype.replace
DOLLARAMP == "$&"

\* characters matched by [a-zA-Z0-9-]
IdChars == {"a", "b"}

(***************************************************************************)
(* String primitives                                                        *)
(***************************************************************************)
Includes(s, t) == \E i \in 1..Len(s) : s[i] = t

StartsWith(s, t) == Len(s) > 0 /\ s[1] = t

\* 0-based index of the first occurrence, -1 when absent
IndexOf(s, t) ==
  IF Includes(s, t)
  THEN (CHOOSE i \in 1..Len(s) : s[i] = t /\ \A j \in 1..(i - 1) : s[j] # t) - 1
  ELSE -1

\* s.substring(from) and s.substring(0, to), 0-based
SubstringFrom(s, from) == SubSeq(s, from + 1, Len(s))
SubstringTo(s, to) == SubSeq(s, 1, to)

RECURSIVE Concat(_)
Concat(ss) == IF ss = <<>> THEN <<>> ELSE Head(ss) \o Concat(Tail(ss))

Seqs(S, n) == UNION {[1..k -> S] : k \in 0..n}

(***************************************************************************)
(* Encryption codec (lib/utils/encryption, not among the source files)      *)
(***************************************************************************)
GenerateEncryptionKey(uid) == IF uid = "u1" THEN "k1" ELSE "k2"

EncryptText(p, key) == <<U2F, key>> \o p

\* mode is what the codec does with a value it cannot decrypt:
\* "throw" fails explicitly, "noop" returns the value unchanged
DecryptText(c, key, mode) ==
  IF Len(c) >= 2 /\ c[1] = U2F /\ c[2] = key
  THEN [ok |-> TRUE, val |-> SubSeq(c, 3, Len(c))]
  ELSE IF mode = "throw"
       THEN [ok |-> FALSE, val |-> <<>>]
       ELSE [ok |-> TRUE, val |-> c]

FailModes == {"throw", "noop"}

RECURSIVE Nest(_, _, _)
Nest(p, key, n) == IF n = 0 THEN p ELSE EncryptText(Nest(p, key, n - 1), key)

RECURSIVE Layers(_, _)
Layers(c, key) ==
  IF Len(c) >= 2 /\ c[1] = U2F /\ c[2] = key
  THEN 1 + Layers(SubSeq(c, 3, Len(c)), key)
  ELSE 0

RECURSIVE Plain(_, _)
Plain(c, key) ==
  IF Len(c) >= 2 /\ c[1] = U2F /\ c[2] = key
  THEN Plain(SubSeq(c, 3, Len(c)), key)
  ELSE c

(***************************************************************************)
(* decryptPromptMessages: pure parts                                        *)
(***************************************************************************)
\* message.content.match(/__ENCRYPTED_PROMPT_ID__:([a-zA-Z0-9-]+)/)
MatchStart(s) ==
  IF \E i \in 1..(Len(s) - 1) : s[i] = SENT /\ s[i + 1] \in IdChars
  THEN CHOOSE i \in 1..(Len(s) - 1) :
         /\ s[i] = SENT /\ s[i + 1] \in IdChars
         /\ \A j \in 1..(i - 1) : ~(s[j] = SENT /\ s[j + 1] \in IdChars)
  ELSE 0

RECURSIVE IdRun(_, _)
IdRun(s, i) ==
  IF i <= Len(s) /\ s[i] \in IdChars THEN <<s[i]>> \o IdRun(s, i + 1) ELSE <<>>

PromptIdMatch(s) ==
  IF MatchStart(s) = 0
  THEN [found |-> FALSE, id |-> <<>>]
  ELSE [found |-> TRUE, id |-> IdRun(s, MatchStart(s) + 1)]

IsNewFormat(s) == Includes(s, OPEN) /\ Includes(s, CLOSE)

HasRule2(s) == Includes(s, RULE2) /\ Includes(s, RULE2END)

Rule2Content == <<RULE2, PUNCTTEXT, RULE2, NL, NL>>

RuleContent == <<RULE, LEAKTEXT, RULE, NL, NL>>

\* the first match of /<提示词内容>.*?<\/提示词内容>/s: [from, to], 1-based, or
\* from = 0 when there is none
RegionMatch(s) ==
  IF \E i \in 1..Len(s) : s[i] = OPEN /\ \E j \in (i + 1)..Len(s) : s[j] = CLOSE
  THEN LET i == CHOOSE i \in 1..Len(s) :
                  /\ s[i] = OPEN /\ \E j \in (i + 1)..Len(s) : s[j] = CLOSE
                  /\ \A k \in 1..(i - 1) :
                       ~(s[k] = OPEN /\ \E j \in (k + 1)..Len(s) : s[j] = CLOSE)
           j == CHOOSE j \in (i + 1)..Len(s) :
                  s[j] = CLOSE /\ \A k \in (i + 1)..(j - 1) : s[k] # CLOSE
       IN [from |-> i, to |-> j]
  ELSE [from |-> 0, to |-> 0]

\* the replacement string with its $& patterns expanded to the matched text
RECURSIVE Expand(_, _)
Expand(repl, matched) ==
  IF repl = <<>> THEN <<>>
  ELSE (IF Head(repl) = DOLLARAMP THEN matched ELSE <<Head(repl)>>)
         \o Expand(Tail(repl), matched)

\* content.replace(/<提示词内容>.*?<\/提示词内容>/s, `<提示词内容>${promptContent}</提示词内容>`)
ReplaceRegion(s, promptContent) ==
  LET m == RegionMatch(s) IN
  IF m.from = 0 THEN s
  ELSE SubSeq(s, 1, m.from - 1)
         \o Expand(<<OPEN>> \o promptContent \o <<CLOSE>>, SubSeq(s, m.from, m.to))
         \o SubSeq(s, m.to + 1, Len(s))

\* the guard is inserted only when the tag is found past the first position
InsertGuardAt(tagIndex) == tagIndex > 0

NewFormatContent(content, promptContent) ==
  LET replaced == ReplaceRegion(content, promptContent)
      tagIndex == IndexOf(replaced, OPEN)
  IN IF ~HasRule2(content) /\ InsertGuardAt(tagIndex)
     THEN SubstringTo(replaced, tagIndex) \o Rule2Content \o SubstringFrom(replaced, tagIndex)
     ELSE replaced

LegacyContentUnguarded(promptContent) == Rule2Content \o promptContent

\* lines 149-151
LegacyContent(promptContent) == RuleContent \o Rule2Content \o promptContent

FinalContent(content, promptContent) ==
  IF IsNewFormat(content)
  THEN NewFormatContent(content, promptContent)
  ELSE LegacyContent(promptContent)

(***************************************************************************)
(* State                                                                    *)
(***************************************************************************)
VARIABLES
  \* environment of the rewriter
  store,              \* the local prompt store: a set of records [id, content]
  sessionUser,        \* what getCurrentUser resolves to: a user id or NoUser
  \* decryptPromptMessages
  messages,           \* the argument
  decryptedMessages,  \* the array being built
  rwPc,               \* position inside decryptPromptMessages
  rwIdx,              \* 1-based position of the for-of loop
  promptId,
  prompt,             \* content of the prompt getPromptById resolved to
  promptContent,
  decryptAttempts,
  \* observations of one call
  outcome,            \* per input position: how the message was produced
  injected,           \* per input position: the promptContent that was injected
  warned,             \* positions for which console.warn was called
  promptLookups,      \* positions for which getPromptById was called
  userLookups,        \* positions for which getCurrentUser was called
  decryptCalls,       \* per input position: number of decryptText calls
  decryptThrew        \* positions for which a decryptText call threw

rwVars == <<store, sessionUser, messages, decryptedMessages, rwPc, rwIdx, promptId,
            prompt, promptContent, decryptAttempts, outcome, injected, warned,
            promptLookups, userLookups, decryptCalls, decryptThrew>>

VARIABLES
  reqHeader,       \* the Authorization header; <<>> when absent or empty
  reqBody,         \* the request body
  relayPc,         \* position inside POST
  authReply,       \* what supabase.auth.getUser answered
  relayStatus,     \* HTTP status of the relay's response; 0 before there is one
  relayError,      \* the error field of a JSON error response
  upstreamReqs,    \* the requests sent to the upstream completion API
  upstream,        \* bytes of the upstream body not read yet
  upstreamEnd,     \* how the upstream body ends: "done", "error" or "nobody"
  out,             \* the events enqueued on the relay's output stream
  outState,        \* "none", "open", "closed" or "errored"
  upLines,         \* the lines of the upstream body, as sent
  upstreamStatus,  \* response.status of the upstream answer; 0 before there is one
  raised,          \* where an exception was thrown inside POST; "none" if nowhere
  readSplit        \* a read ended inside a line

relayVars == <<reqHeader, reqBody, relayPc, authReply, relayStatus, relayError,
               upstreamReqs, upstream, upstreamEnd, out, outState, upLines, readSplit,
               upstreamStatus, raised>>

VARIABLES
  entry,           \* "generate" or "generateStream"
  messagesGiven,   \* FALSE when the messages argument is null or undefined
  onChunkIsFn,     \* typeof onChunk === 'function'
  hasWindow,       \* typeof window !== 'undefined'
  options,         \* the options argument
  sessionToken,    \* session.access_token; <<>> when there is no session
  dPc,             \* position inside generate / generateStream
  posts,           \* the POST requests sent to /api/ai/stream
  respStatus,      \* status of the relay's response; 0 before there is one
  cstream,         \* bytes of the response body not read yet
  cEnd,            \* how the body ends: "done", "error", "abort" or "nobody"
  fullContent,     \* the accumulator of generate
  chunks,          \* the arguments onChunk was called with, in order
  dError,          \* the error caught by the catch block
  dResult,         \* how the call ended and with what
  cLines,          \* the lines of the response body, as sent
  cSplit,          \* a read ended inside an event
  abortFired,      \* the caller has fired options.abortSignal
  tokenCalls       \* number of calls of getUserToken

dVars == <<entry, messagesGiven, onChunkIsFn, hasWindow, options, sessionToken, dPc,
           posts, respStatus, cstream, cEnd, fullContent, chunks, dError, dResult,
           cLines, cSplit, abortFired, tokenCalls>>

VARIABLES
  db,              \* the prompt collection of the local store, in storage order
  repoUser,        \* the authenticated user of the repository calls
  repoArg,         \* the repository call being made and its arguments
  repoResult,      \* how that call ended and the records it returned
  encryptCalls,    \* number of calls of encryptPrompt
  dbWrites,        \* number of dbOperations.add and dbOperations.update calls
  wrote,           \* per stored id: the call that last wrote it and the content given
  pageHistory      \* per stored id: the content given to addPrompt, the number of
                   \* saves from the prompt page, and whether updatePrompt was
                   \* called with content from elsewhere

repoVars == <<db, repoUser, repoArg, repoResult, encryptCalls, dbWrites, wrote,
              pageHistory>>

vars == <<rwVars, relayVars, dVars, repoVars>>

NoUser == "none"
Users == {"u1"}

Msg(r, c) == [role |-> r, content |-> c]

GetPromptByIdUnchecked(st, id) ==
  [found |-> TRUE,
   content |-> IF \E p \in st : p.id = id
               THEN (CHOOSE p \in st : p.id = id).content ELSE <<>>]

\* dbOperations.getById behind getPromptById(id) with the decrypt flag false
GetPromptById(st, id) ==
  IF \E p \in st : p.id = id
  THEN [found |-> TRUE, content |-> (CHOOSE p \in st : p.id = id).content]
  ELSE [found |-> FALSE, content |-> <<>>]

(***************************************************************************)
(* Inputs                                                                   *)
(***************************************************************************)
Alphabet == {SENT, "a", OPEN, CLOSE, RULE2, RULE2END}

Plaintexts == {<<>>, <<"x">>, <<"x", DOLLARAMP>>, <<U2F, "x">>}

PromptA == <<"a">>

StoredContents ==
  {Nest(p, "k1", n) : p \in Plaintexts, n \in 0..MaxLayers}
    \cup {Nest(p, "k2", 1) : p \in Plaintexts}

AllStores == {{}} \cup {{[id |-> PromptA, content |-> c]} : c \in StoredContents}

NominalStore == {[id |-> PromptA, content |-> Nest(<<"x">>, "k1", 1)]}

FewStores == {{}, NominalStore, {[id |-> PromptA, content |-> Nest(<<"x">>, "k2", 1)]}}

TemplateContents ==
  { <<"x">>,
    <<SENT>>,
    <<SENT, "a">>,
    <<SENT, "b">>,
    <<OPEN, SENT, "a", CLOSE>>,
    <<"x", OPEN, SENT, "a", CLOSE>>,
    <<RULE, LEAKTEXT, RULE, NL, OPEN, SENT, "a", CLOSE>>,
    <<RULE2, "x", RULE2END, OPEN, SENT, "a", CLOSE>>,
    <<"x", RULE2, PUNCTTEXT, RULE2, NL, NL, OPEN, SENT, "a", CLOSE>> }

Pool ==
  { Msg("user", <<"x">>), Msg("assistant", <<SENT, "a">>), Msg("system", <<"x">>),
    Msg("system", <<SENT, "a">>), Msg("system", <<SENT>>),
    Msg("system", <<"x", OPEN, SENT, "a", CLOSE>>) }

RewriterInputs ==
  {[m |-> <<Msg(r, c)>>, st |-> NominalStore, u |-> "u1"] :
      r \in {"system", "user"}, c \in Seqs(Alphabet, MaxLen)}
  \cup {[m |-> <<Msg("system", c)>>, st |-> st, u |-> u] :
      c \in TemplateContents, st \in AllStores, u \in Users \cup {NoUser}}
  \cup {[m |-> ms, st |-> st, u |-> u] :
      ms \in Seqs(Pool, MaxMsgs), st \in FewStores, u \in Users \cup {NoUser}}

(***************************************************************************)
(* decryptPromptMessages                                                    *)
(***************************************************************************)
RwStart(ms, st, u) ==
  /\ store = st
  /\ sessionUser = u
  /\ messages = ms
  /\ decryptedMessages = <<>>
  /\ rwPc = "loop"
  /\ rwIdx = 1
  /\ promptId = <<>>
  /\ prompt = <<>>
  /\ promptContent = <<>>
  /\ decryptAttempts = 0
  /\ outcome = [i \in 1..Len(ms) |-> "pending"]
  /\ injected = [i \in 1..Len(ms) |-> <<>>]
  /\ warned = {}
  /\ promptLookups = {}
  /\ userLookups = {}
  /\ decryptCalls = [i \in 1..Len(ms) |-> 0]
  /\ decryptThrew = {}

InitRewriter == \E inp \in RewriterInputs : RwStart(inp.m, inp.st, inp.u)

Current == messages[rwIdx]

NeedsRewriteAnyRole(m) == Includes(m.content, SENT)

\* line 74
NeedsRewrite(m) == m.role = "system" /\ Includes(m.content, SENT)

Push(m, how) ==
  /\ decryptedMessages' = Append(decryptedMessages, m)
  /\ outcome' = [outcome EXCEPT ![rwIdx] = how]
  /\ rwIdx' = rwIdx + 1
  /\ rwPc' = "loop"

\* lines 72-74, 166-169: not an encrypted system message
RwPassThrough ==
  /\ rwPc = "loop" /\ rwIdx <= Len(messages)
  /\ ~NeedsRewrite(Current)
  /\ Push(Current, "pass")
  /\ UNCHANGED <<store, sessionUser, messages, promptId, prompt, promptContent,
                 decryptAttempts, injected, warned, promptLookups, userLookups,
                 decryptCalls, decryptThrew>>
  /\ UNCHANGED <<relayVars, dVars, repoVars>>

\* lines 74-86: enter the try block and extract the id
RwExtractId ==
  /\ rwPc = "loop" /\ rwIdx <= Len(messages)
  /\ NeedsRewrite(Current)
  /\ LET m == PromptIdMatch(Current.content) IN
       IF m.found
       THEN promptId' = m.id /\ rwPc' = "getPrompt"
       ELSE promptId' = <<>> /\ rwPc' = "catch"
  /\ UNCHANGED <<store, sessionUser, messages, decryptedMessages, rwIdx, prompt,
                 promptContent, decryptAttempts, outcome, injected, warned,
                 promptLookups, userLookups, decryptCalls, decryptThrew>>
  /\ UNCHANGED <<relayVars, dVars, repoVars>>

\* lines 89-92
RwGetPrompt ==
  /\ rwPc = "getPrompt"
  /\ promptLookups' = promptLookups \cup {rwIdx}
  /\ LET p == GetPromptById(store, promptId) IN
       IF p.found
       THEN prompt' = p.content /\ rwPc' = "getUser"
       ELSE prompt' = <<>> /\ rwPc' = "catch"
  /\ UNCHANGED <<store, sessionUser, messages, decryptedMessages, rwIdx, promptId,
                 promptContent, decryptAttempts, outcome, injected, warned,
                 userLookups, decryptCalls, decryptThrew>>
  /\ UNCHANGED <<relayVars, dVars, repoVars>>

\* lines 95-98
RwGetUser ==
  /\ rwPc = "getUser"
  /\ userLookups' = userLookups \cup {rwIdx}
  /\ rwPc' = IF sessionUser = NoUser THEN "catch" ELSE "decrypt"
  /\ UNCHANGED <<store, sessionUser, messages, decryptedMessages, rwIdx, promptId,
                 prompt, promptContent, decryptAttempts, outcome, injected, warned,
                 promptLookups, decryptCalls, decryptThrew>>
  /\ UNCHANGED <<relayVars, dVars, repoVars>>

\* lines 101-104: content that does not start with the marker is used as it is
RwNoDecrypt ==
  /\ rwPc = "decrypt"
  /\ ~StartsWith(prompt, U2F)
  /\ promptContent' = prompt
  /\ rwPc' = "inject"
  /\ UNCHANGED <<store, sessionUser, messages, decryptedMessages, rwIdx, promptId,
                 prompt, decryptAttempts, outcome, injected, warned, promptLookups,
                 userLookups, decryptCalls, decryptThrew>>
  /\ UNCHANGED <<relayVars, dVars, repoVars>>

\* one call of decryptText(promptContent, key) on text c (lines 109 and 116)
DecryptStep(c, next, attempts) ==
  \E mode \in FailModes :
    LET r == DecryptText(c, GenerateEncryptionKey(sessionUser), mode) IN
      /\ decryptCalls' = [decryptCalls EXCEPT ![rwIdx] = @ + 1]
      /\ IF r.ok
         THEN /\ promptContent' = r.val /\ rwPc' = next /\ decryptAttempts' = attempts
              /\ decryptThrew' = decryptThrew
         ELSE /\ promptContent' = c /\ rwPc' = "catch" /\ decryptAttempts' = decryptAttempts
              /\ decryptThrew' = decryptThrew \cup {rwIdx}

\* lines 104-113: the first decryption
RwDecryptFirst ==
  /\ rwPc = "decrypt"
  /\ StartsWith(prompt, U2F)
  /\ DecryptStep(prompt, "nested", 0)
  /\ UNCHANGED <<store, sessionUser, messages, decryptedMessages, rwIdx, promptId,
                 prompt, outcome, injected, warned, promptLookups, userLookups>>
  /\ UNCHANGED <<relayVars, dVars, repoVars>>

NestedLoopGuardOnce(c, attempts) == StartsWith(c, U2F) /\ attempts < 1

NestedLoopGuardFour(c, attempts) == StartsWith(c, U2F) /\ attempts < 4

NestedLoopGuardFive(c, attempts) == StartsWith(c, U2F) /\ attempts < 5

\* line 114: the condition of the while loop
NestedLoopGuard(c, attempts) == StartsWith(c, U2F) /\ attempts < 3

\* lines 114-118: one iteration of the nested-encryption loop
RwDecryptNested ==
  /\ rwPc = "nested"
  /\ NestedLoopGuard(promptContent, decryptAttempts)
  /\ DecryptStep(promptContent, "nested", decryptAttempts + 1)
  /\ UNCHANGED <<store, sessionUser, messages, decryptedMessages, rwIdx, promptId,
                 prompt, outcome, injected, warned, promptLookups, userLookups>>
  /\ UNCHANGED <<relayVars, dVars, repoVars>>

\* lines 119-124: the loop ends; warn when the text is still ciphertext-shaped
RwDecryptEnd ==
  /\ rwPc = "nested"
  /\ ~NestedLoopGuard(promptContent, decryptAttempts)
  /\ warned' = IF StartsWith(promptContent, U2F) THEN warned \cup {rwIdx} ELSE warned
  /\ rwPc' = "inject"
  /\ UNCHANGED <<store, sessionUser, messages, decryptedMessages, rwIdx, promptId,
                 prompt, promptContent, decryptAttempts, outcome, injected,
                 promptLookups, userLookups, decryptCalls, decryptThrew>>
  /\ UNCHANGED <<relayVars, dVars, repoVars>>

\* lines 126-160: build the content and push the rewritten message
\* the rewritten content is written into the input message as well
RwInjectInPlace ==
  /\ rwPc = "inject"
  /\ injected' = [injected EXCEPT ![rwIdx] = promptContent]
  /\ Push(Msg("system", FinalContent(Current.content, promptContent)),
          IF IsNewFormat(Current.content) THEN "new" ELSE "legacy")
  /\ messages' = [messages EXCEPT
                    ![rwIdx] = Msg("system", FinalContent(Current.content, promptContent))]
  /\ UNCHANGED <<store, sessionUser, promptId, prompt, promptContent,
                 decryptAttempts, warned, promptLookups, userLookups, decryptCalls, decryptThrew>>
  /\ UNCHANGED <<relayVars, dVars, repoVars>>

RwInject ==
  /\ rwPc = "inject"
  /\ injected' = [injected EXCEPT ![rwIdx] = promptContent]
  /\ Push(Msg("system", FinalContent(Current.content, promptContent)),
          IF IsNewFormat(Current.content) THEN "new" ELSE "legacy")
  /\ UNCHANGED <<store, sessionUser, messages, promptId, prompt, promptContent,
                 decryptAttempts, warned, promptLookups, userLookups, decryptCalls, decryptThrew>>
  /\ UNCHANGED <<relayVars, dVars, repoVars>>

RwCatchAborts ==
  /\ rwPc = "catch"
  /\ rwPc' = "done"
  /\ UNCHANGED <<store, sessionUser, messages, decryptedMessages, rwIdx, promptId,
                 prompt, promptContent, decryptAttempts, outcome, injected, warned,
                 promptLookups, userLookups, decryptCalls, decryptThrew>>
  /\ UNCHANGED <<relayVars, dVars, repoVars>>

\* lines 161-165: any failure keeps the original message
RwCatch ==
  /\ rwPc = "catch"
  /\ Push(Current, "fallback")
  /\ UNCHANGED <<store, sessionUser, messages, promptId, prompt, promptContent,
                 decryptAttempts, injected, warned, promptLookups, userLookups,
                 decryptCalls, decryptThrew>>
  /\ UNCHANGED <<relayVars, dVars, repoVars>>

\* line 172
RwReturn ==
  /\ rwPc = "loop" /\ rwIdx > Len(messages)
  /\ rwPc' = "done"
  /\ UNCHANGED <<store, sessionUser, messages, decryptedMessages, rwIdx, promptId,
                 prompt, promptContent, decryptAttempts, outcome, injected, warned,
                 promptLookups, userLookups, decryptCalls, decryptThrew>>
  /\ UNCHANGED <<relayVars, dVars, repoVars>>

NextRewriter ==
  \/ RwPassThrough
  \/ RwExtractId
  \/ RwGetPrompt
  \/ RwGetUser
  \/ RwNoDecrypt
  \/ RwDecryptFirst
  \/ RwDecryptNested
  \/ RwDecryptEnd
  \/ RwInject
  \/ RwCatch
  \/ RwReturn

(***************************************************************************)
(* Server-sent-event text                                                   *)
(***************************************************************************)
\* 'data: '
DATA == "data: "
\* '[DONE]'
DONE == "[DONE]"
\* '{"choices":[{"delta":{"content":"' and '"}}]}' of the upstream schema
JOPEN == "{choices:[{delta:{content:"
JCLOSE == "}}]}"
\* '{"content":"' and '"}' of the normalized schema
COPEN == "{content:"
CCLOSE == "}"
\* a JSON document without the content field, text that is not JSON, and a
\* line that is not a data line
NOCONTENT == "{}"
GARBAGE == "not-json"
COMMENT == ": keep-alive"

DeltaChars == {"Hel", "lo"}

\* chunk.split('\n')
RECURSIVE Split(_)
Split(s) ==
  IF ~Includes(s, NL) THEN <<s>>
  ELSE <<SubstringTo(s, IndexOf(s, NL))>> \o Split(SubstringFrom(s, IndexOf(s, NL) + 1))

\* JSON.parse(data) followed by parsed.choices?.[0]?.delta?.content
UpstreamContent(data) ==
  IF /\ Len(data) >= 2 /\ data[1] = JOPEN /\ data[Len(data)] = JCLOSE
     /\ \A k \in 2..(Len(data) - 1) : data[k] \in DeltaChars
  THEN [parsed |-> TRUE, content |-> SubSeq(data, 2, Len(data) - 1)]
  ELSE IF data = <<NOCONTENT>>
       THEN [parsed |-> TRUE, content |-> <<>>]
       ELSE [parsed |-> FALSE, content |-> <<>>]

\* `data: ${JSON.stringify({ content })}\n\n`
NormalizedEvent(content) == <<DATA, COPEN>> \o content \o <<CCLOSE, NL, NL>>

\* a line that fails to parse ends the stream
RECURSIVE RelayLinesParseFatal(_, _)
RelayLinesParseFatal(lines, acc) ==
  IF lines = <<>> THEN [events |-> acc, closed |-> FALSE]
  ELSE LET line == Head(lines) IN
    IF ~StartsWith(line, DATA) THEN RelayLinesParseFatal(Tail(lines), acc)
    ELSE LET data == Tail(line) IN
      IF data = <<DONE>> THEN [events |-> acc, closed |-> TRUE]
      ELSE LET c == UpstreamContent(data) IN
        IF ~c.parsed THEN [events |-> acc, closed |-> TRUE]
        ELSE IF c.content # <<>>
             THEN RelayLinesParseFatal(Tail(lines), Append(acc, NormalizedEvent(c.content)))
             ELSE RelayLinesParseFatal(Tail(lines), acc)

\* the for loop over the lines of one chunk (route.ts lines 155-177): the
\* events enqueued and whether the [DONE] line closed the stream
RECURSIVE RelayLines(_, _)
RelayLines(lines, acc) ==
  IF lines = <<>> THEN [events |-> acc, closed |-> FALSE]
  ELSE LET line == Head(lines) IN
    IF ~StartsWith(line, DATA) THEN RelayLines(Tail(lines), acc)
    ELSE LET data == Tail(line) IN
      IF data = <<DONE>> THEN [events |-> acc, closed |-> TRUE]
      ELSE LET c == UpstreamContent(data) IN
        IF c.parsed /\ c.content # <<>>
        THEN RelayLines(Tail(lines), Append(acc, NormalizedEvent(c.content)))
        ELSE RelayLines(Tail(lines), acc)

(***************************************************************************)
(* Relay: inputs                                                            *)
(***************************************************************************)
Absent == -1
NominalOptions == [model |-> "m1", temperature |-> Absent, max_tokens |-> Absent]

NoError == [name |-> "none", dom |-> FALSE, message |-> <<>>]

NoResult == [kind |-> "none", name |-> "none", value |-> <<>>]

BEARER == "Bearer "
ApiKey == "server-key"

ErrNoToken == <<"no-valid-auth-", "token">>
ErrUserAuth == <<"user-", "auth-failed">>
ErrMessagesEmpty == <<"messages-must-not-be-empty">>
ErrModelRequired == <<"model-required">>
ErrUpstreamGeneric == <<"ai-service-request-failed">>
ErrUpstreamAuth == <<"API-", "auth-failed", "-contact-admin">>
ErrUpstreamRate == <<"too-frequent", "-retry-later">>
ErrUpstreamBadRequest == <<"bad-request-parameters">>
ErrThrown == <<"fetch failed">>

GoodToken == "good-token"
\* the token of another signed-in user
OtherGoodToken == "good-token-2"

Headers ==
  { <<>>, <<"Basic ", GoodToken>>, <<BEARER>>, <<BEARER, "bad-token">>,
    <<BEARER, GoodToken>>, <<BEARER, OtherGoodToken>> }

MsgFields ==
  { [kind |-> "missing", items |-> <<>>], [kind |-> "notArray", items |-> <<>>],
    [kind |-> "array", items |-> <<>>],
    [kind |-> "array", items |-> <<Msg("user", <<"x">>)>>] }

OptFields ==
  { [kind |-> "missing", model |-> "", temperature |-> Absent, max_tokens |-> Absent,
     stream |-> "absent"],
    [kind |-> "object", model |-> "", temperature |-> Absent, max_tokens |-> Absent,
     stream |-> "absent"] }
  \cup { [kind |-> "object", model |-> "m1", temperature |-> t, max_tokens |-> mt,
          stream |-> st] :
           t \in {Absent, 0, 5}, mt \in {Absent, 0, 100}, st \in {"absent", "false"} }

Bodies ==
  {[json |-> TRUE, messages |-> m, options |-> o] : m \in MsgFields, o \in OptFields}
  \cup {[json |-> FALSE, messages |-> [kind |-> "missing", items |-> <<>>],
         options |-> [kind |-> "missing", model |-> "", temperature |-> Absent,
                      max_tokens |-> Absent, stream |-> "absent"]]}

NominalBody ==
  [json |-> TRUE,
   messages |-> [kind |-> "array", items |-> <<Msg("user", <<"x">>)>>],
   options |-> [kind |-> "object", model |-> "m1", temperature |-> Absent,
                max_tokens |-> Absent, stream |-> "absent"]]

\* the lines an upstream body is made of
LineKinds ==
  { <<DATA, JOPEN, "Hel", JCLOSE>>, <<DATA, JOPEN, "lo", JCLOSE>>,
    <<DATA, JOPEN, JCLOSE>>, <<DATA, NOCONTENT>>, <<DATA, GARBAGE>>,
    <<DATA, DONE>>, <<COMMENT>>, <<>> }

RECURSIVE Join(_)
Join(lines) == IF lines = <<>> THEN <<>> ELSE Head(lines) \o <<NL>> \o Join(Tail(lines))

UpstreamBodies == Seqs(LineKinds, MaxLines)

FewBodies == {<<>>, << <<DATA, JOPEN, "Hel", JCLOSE>>, <<DATA, DONE>> >>}

IsOk(status) == status >= 200 /\ status <= 299

UpstreamStatuses == {200, 400, 401, 403, 429, 500, 503}

(***************************************************************************)
(* Relay: POST                                                              *)
(***************************************************************************)
InitRelay ==
  /\ reqHeader \in Headers
  /\ reqBody \in Bodies
  /\ relayPc = "auth"
  /\ authReply = "none"
  /\ relayStatus = 0
  /\ relayError = <<>>
  /\ upstreamReqs = <<>>
  /\ upstream = <<>>
  /\ upstreamEnd = "done"
  /\ out = <<>>
  /\ outState = "none"
  /\ upLines = <<>>
  /\ readSplit = FALSE
  /\ upstreamStatus = 0
  /\ raised = "none"

\* NextResponse.json({ error }, { status })
Reject(status, error) ==
  /\ relayStatus' = status
  /\ relayError' = error
  /\ relayPc' = "done"

HeaderRejectedIfAbsent(h) == h = <<>>

\* lines 38-44: the header is absent or does not start with 'Bearer '
HeaderRejected(h) == h = <<>> \/ ~StartsWith(h, BEARER)

\* authHeader.substring(7)
TokenOf(h) == Tail(h)

RelayCheckHeader ==
  /\ relayPc = "auth"
  /\ IF HeaderRejected(reqHeader)
     THEN Reject(401, ErrNoToken)
     ELSE relayPc' = "getUser" /\ UNCHANGED <<relayStatus, relayError>>
  /\ UNCHANGED <<reqHeader, reqBody, authReply, upstreamReqs, upstream, upstreamEnd,
                 out, outState, upLines, readSplit>>
  /\ UNCHANGED <<upstreamStatus, raised>>
  /\ UNCHANGED <<rwVars, dVars, repoVars>>

\* what the session authority can answer for a token: the user, an error, no
\* user, or a failure of the call itself
AuthReplies(token) ==
  IF token \in {<<GoodToken>>, <<OtherGoodToken>>}
  THEN {"user", "threw"} ELSE {"error", "nouser", "threw"}

\* lines 49-55 (and the outer catch for a call that throws)
RelayGetUser ==
  /\ relayPc = "getUser"
  /\ \E r \in AuthReplies(TokenOf(reqHeader)) :
       /\ authReply' = r
       /\ IF r = "threw" THEN Reject(500, ErrThrown)
          ELSE IF r # "user" THEN Reject(401, ErrUserAuth)
          ELSE relayPc' = "parse" /\ UNCHANGED <<relayStatus, relayError>>
  /\ UNCHANGED <<reqHeader, reqBody, upstreamReqs, upstream, upstreamEnd, out,
                 outState, upLines, readSplit>>
  /\ raised' = (IF authReply' = "threw" THEN "auth" ELSE raised)
  /\ UNCHANGED upstreamStatus
  /\ UNCHANGED <<rwVars, dVars, repoVars>>

MessagesRejectedUnlessArray(m) == m.kind # "array"

\* line 62
MessagesRejected(m) == m.kind = "missing" \/ m.kind # "array" \/ Len(m.items) = 0

OptionsRejectedIfMissing(o) == o.kind = "missing"

\* line 69
OptionsRejected(o) == o.kind = "missing" \/ o.model = ""

\* lines 58-74
RelayValidate ==
  /\ relayPc = "parse"
  /\ IF ~reqBody.json THEN Reject(500, ErrThrown)
     ELSE IF MessagesRejected(reqBody.messages) THEN Reject(400, ErrMessagesEmpty)
     ELSE IF OptionsRejected(reqBody.options) THEN Reject(400, ErrModelRequired)
     ELSE relayPc' = "fetch" /\ UNCHANGED <<relayStatus, relayError>>
  /\ UNCHANGED <<reqHeader, reqBody, authReply, upstreamReqs, upstream, upstreamEnd,
                 out, outState, upLines, readSplit>>
  /\ raised' = (IF ~reqBody.json THEN "parse" ELSE raised)
  /\ UNCHANGED upstreamStatus
  /\ UNCHANGED <<rwVars, dVars, repoVars>>

\* a || b on numbers
OrDefault(v, d) == IF v = Absent \/ v = 0 THEN d ELSE v

UpstreamAuthorizationForwarded(header, body) == header

\* lines 77 and 99: `Bearer ${apiKey}` with the key held by the server
UpstreamAuthorization(header, body) == <<BEARER, ApiKey>>

AiRequestClientStream(body) ==
  [model |-> body.options.model,
   messages |-> body.messages.items,
   temperature |-> OrDefault(body.options.temperature, 7),
   max_tokens |-> OrDefault(body.options.max_tokens, 4096),
   stream |-> body.options.stream # "false",
   authorization |-> UpstreamAuthorization(reqHeader, body)]

\* lines 80-86 with the Authorization header of lines 97-100, temperature in
\* tenths
AiRequest(body) ==
  [model |-> body.options.model,
   messages |-> body.messages.items,
   temperature |-> OrDefault(body.options.temperature, 7),
   max_tokens |-> OrDefault(body.options.max_tokens, 4096),
   stream |-> TRUE,
   authorization |-> UpstreamAuthorization(reqHeader, body)]

UpstreamErrorMessageGeneric(status) == ErrUpstreamGeneric

\* lines 108-115
UpstreamErrorMessage(status) ==
  IF status = 401 THEN ErrUpstreamAuth
  ELSE IF status = 429 THEN ErrUpstreamRate
  ELSE IF status = 400 THEN ErrUpstreamBadRequest
  ELSE ErrUpstreamGeneric

\* lines 95-102 when fetch rejects: the outer catch answers 500
RelayFetchThrows ==
  /\ relayPc = "fetch"
  /\ upstreamReqs' = Append(upstreamReqs, AiRequest(reqBody))
  /\ Reject(500, ErrThrown)
  /\ UNCHANGED <<reqHeader, reqBody, authReply, upstream, upstreamEnd, out, outState,
                 upLines, readSplit>>
  /\ raised' = "fetch"
  /\ UNCHANGED upstreamStatus
  /\ UNCHANGED <<rwVars, dVars, repoVars>>

\* lines 95-121 when upstream answers with a non-success status
RelayFetchError ==
  /\ relayPc = "fetch"
  /\ upstreamReqs' = Append(upstreamReqs, AiRequest(reqBody))
  /\ \E status \in UpstreamStatuses :
       /\ ~IsOk(status)
       /\ upstreamStatus' = status
       /\ Reject(status, UpstreamErrorMessage(status))
  /\ UNCHANGED <<reqHeader, reqBody, authReply, upstream, upstreamEnd, out, outState,
                 upLines, readSplit>>
  /\ UNCHANGED raised
  /\ UNCHANGED <<rwVars, dVars, repoVars>>

\* lines 95-192 when upstream answers 200: the stream is created and returned
RelayFetchOk ==
  /\ relayPc = "fetch"
  /\ upstreamReqs' = Append(upstreamReqs, AiRequest(reqBody))
  /\ \E lines \in (IF reqBody = NominalBody /\ reqHeader = <<BEARER, GoodToken>>
                   THEN UpstreamBodies ELSE FewBodies) :
       /\ upLines' = lines
       /\ upstream' = Join(lines)
  /\ upstreamEnd' \in {"done", "error", "nobody", "hang"}
  /\ relayStatus' = 200
  /\ outState' = "open"
  /\ relayPc' = "reading"
  /\ UNCHANGED <<reqHeader, reqBody, authReply, relayError, out, readSplit>>
  /\ \E status \in UpstreamStatuses : IsOk(status) /\ upstreamStatus' = status
  /\ UNCHANGED raised
  /\ UNCHANGED <<rwVars, dVars, repoVars>>

\* lines 137-141: the upstream response has no body
RelayNoReader ==
  /\ relayPc = "reading"
  /\ upstreamEnd = "nobody"
  /\ outState' = "errored"
  /\ relayPc' = "done"
  /\ UNCHANGED <<reqHeader, reqBody, authReply, relayStatus, relayError, upstreamReqs,
                 upstream, upstreamEnd, out, upLines, readSplit>>
  /\ UNCHANGED <<upstreamStatus, raised>>
  /\ UNCHANGED <<rwVars, dVars, repoVars>>

\* lines 144-177: one read that delivers the next n tokens of the body
RelayReadChunk ==
  /\ relayPc = "reading"
  /\ upstreamEnd # "nobody"
  /\ \E n \in 1..Len(upstream) :
       LET chunk == SubSeq(upstream, 1, n)
           r == RelayLines(Split(chunk), <<>>)
       IN /\ upstream' = SubSeq(upstream, n + 1, Len(upstream))
          /\ out' = out \o r.events
          /\ readSplit' = (readSplit \/ chunk[n] # NL)
          /\ IF r.closed
             THEN outState' = "closed" /\ relayPc' = "done"
             ELSE UNCHANGED <<outState, relayPc>>
  /\ UNCHANGED <<reqHeader, reqBody, authReply, relayStatus, relayError, upstreamReqs,
                 upstreamEnd, upLines>>
  /\ UNCHANGED <<upstreamStatus, raised>>
  /\ UNCHANGED <<rwVars, dVars, repoVars>>

RelayReadDoneNoClose ==
  /\ relayPc = "reading"
  /\ upstreamEnd = "done"
  /\ upstream = <<>>
  /\ relayPc' = "done"
  /\ UNCHANGED <<reqHeader, reqBody, authReply, relayStatus, relayError, upstreamReqs,
                 upstream, upstreamEnd, out, outState, upLines, readSplit>>
  /\ UNCHANGED <<upstreamStatus, raised>>
  /\ UNCHANGED <<rwVars, dVars, repoVars>>

\* lines 144-149: the reader reports done
RelayReadDone ==
  /\ relayPc = "reading"
  /\ upstreamEnd = "done"
  /\ upstream = <<>>
  /\ outState' = "closed"
  /\ relayPc' = "done"
  /\ UNCHANGED <<reqHeader, reqBody, authReply, relayStatus, relayError, upstreamReqs,
                 upstream, upstreamEnd, out, upLines, readSplit>>
  /\ UNCHANGED <<upstreamStatus, raised>>
  /\ UNCHANGED <<rwVars, dVars, repoVars>>

RelayReadErrorCloses ==
  /\ relayPc = "reading"
  /\ upstreamEnd = "error"
  /\ outState' = "closed"
  /\ relayPc' = "done"
  /\ UNCHANGED <<reqHeader, reqBody, authReply, relayStatus, relayError, upstreamReqs,
                 upstream, upstreamEnd, out, upLines, readSplit>>
  /\ raised' = "stream"
  /\ UNCHANGED upstreamStatus
  /\ UNCHANGED <<rwVars, dVars, repoVars>>

\* lines 179-182: a read rejects, at any point of the body
RelayReadError ==
  /\ relayPc = "reading"
  /\ upstreamEnd = "error"
  /\ outState' = "errored"
  /\ relayPc' = "done"
  /\ UNCHANGED <<reqHeader, reqBody, authReply, relayStatus, relayError, upstreamReqs,
                 upstream, upstreamEnd, out, upLines, readSplit>>
  /\ raised' = "stream"
  /\ UNCHANGED upstreamStatus
  /\ UNCHANGED <<rwVars, dVars, repoVars>>

NextRelay ==
  \/ RelayCheckHeader
  \/ RelayGetUser
  \/ RelayValidate
  \/ RelayFetchThrows
  \/ RelayFetchError
  \/ RelayFetchOk
  \/ RelayNoReader
  \/ RelayReadChunk
  \/ RelayReadDone
  \/ RelayReadError

(***************************************************************************)
(* Dispatcher: pure parts                                                   *)
(***************************************************************************)
\* MODELS.GEMINI_FLASH
GEMINI_FLASH == "gemini-2.5-flash-preview-04-17"

\* the texts handleAIError looks for and the messages it answers with
KeyNotConfigured == "API key not configured"
KeyNotConfiguredZh == "api-key-not-configured"
KeyAuthFailed == "auth-failed"
KeyAuthentication == "authentication"
KeyTooFrequent == "too-frequent"
Key429 == "429"
KeyToken == "token"
KeyContextLength == "context_length_exceeded"
KeyNetwork == "network"
KeyTimeout == "timeout"
KeyFetchFailed == "fetch failed"

MsgKeyNotConfigured == <<KeyNotConfiguredZh, "-contact-admin">>
MsgAuthFailed == <<"API-", "auth-failed", "-contact-admin">>
MsgTooFrequent == <<"too-frequent", "-retry-later">>
MsgTooLong == <<"content-exceeds-model-limit">>
MsgNetwork == <<"network-error-check-connection">>
MsgFallbackPrefix == "generation-failed: "

\* the rule for the content length is tried before the one for authentication
HandleAIErrorLengthFirst(errorMessage) ==
  IF Includes(errorMessage, KeyNotConfigured) \/ Includes(errorMessage, KeyNotConfiguredZh)
  THEN MsgKeyNotConfigured
  ELSE IF Includes(errorMessage, KeyToken) \/ Includes(errorMessage, KeyContextLength)
       THEN MsgTooLong
  ELSE IF Includes(errorMessage, KeyAuthFailed) \/ Includes(errorMessage, KeyAuthentication)
       THEN MsgAuthFailed
  ELSE IF Includes(errorMessage, KeyTooFrequent) \/ Includes(errorMessage, Key429)
       THEN MsgTooFrequent
  ELSE IF \/ Includes(errorMessage, KeyNetwork) \/ Includes(errorMessage, KeyTimeout)
          \/ Includes(errorMessage, KeyFetchFailed)
       THEN MsgNetwork
  ELSE <<MsgFallbackPrefix>> \o errorMessage

\* lines 39-60
HandleAIError(errorMessage) ==
  IF Includes(errorMessage, KeyNotConfigured) \/ Includes(errorMessage, KeyNotConfiguredZh)
  THEN MsgKeyNotConfigured
  ELSE IF Includes(errorMessage, KeyAuthFailed) \/ Includes(errorMessage, KeyAuthentication)
       THEN MsgAuthFailed
  ELSE IF Includes(errorMessage, KeyTooFrequent) \/ Includes(errorMessage, Key429)
       THEN MsgTooFrequent
  ELSE IF Includes(errorMessage, KeyToken) \/ Includes(errorMessage, KeyContextLength)
       THEN MsgTooLong
  ELSE IF \/ Includes(errorMessage, KeyNetwork) \/ Includes(errorMessage, KeyTimeout)
          \/ Includes(errorMessage, KeyFetchFailed)
       THEN MsgNetwork
  ELSE <<MsgFallbackPrefix>> \o errorMessage

\* '用户未登录或token已过期'
ErrNotLoggedIn == <<"not-logged-in-or-", "token", "-expired">>
\* 'AI generation can only be executed in browser environment'
ErrNoBrowser == <<"browser-environment-only">>
\* '请求失败'
ErrRequestFailed == <<"request-failed">>
\* the message of the TypeError a failed fetch rejects with in a browser
ErrFailedToFetch == <<"Failed to fetch">>
ErrAborted == <<"The user aborted a request.">>

\* JSON.parse(data) followed by parsed.content
ClientContent(data) ==
  IF /\ Len(data) >= 2 /\ data[1] = COPEN /\ data[Len(data)] = CCLOSE
     /\ \A k \in 2..(Len(data) - 1) : data[k] \in DeltaChars
  THEN [parsed |-> TRUE, content |-> SubSeq(data, 2, Len(data) - 1)]
  ELSE IF data = <<NOCONTENT>>
       THEN [parsed |-> TRUE, content |-> <<>>]
       ELSE [parsed |-> FALSE, content |-> <<>>]

\* only the first event of a chunk is taken
ClientLinesFirstOnly(lines) ==
  LET hit(l) == /\ StartsWith(l, DATA) /\ ClientContent(Tail(l)).parsed
                /\ ClientContent(Tail(l)).content # <<>>
      hits == SelectSeq(lines, hit)
  IN IF hits = <<>> THEN <<>> ELSE <<ClientContent(Tail(Head(hits))).content>>

\* the for loop over the lines of one chunk (AIserver.ts lines 264-276 and
\* 361-373): the contents found, in order
RECURSIVE ClientLines(_)
ClientLines(lines) ==
  IF lines = <<>> THEN <<>>
  ELSE LET line == Head(lines) IN
    IF ~StartsWith(line, DATA) THEN ClientLines(Tail(lines))
    ELSE LET c == ClientContent(Tail(line)) IN
      IF c.parsed /\ c.content # <<>>
      THEN <<c.content>> \o ClientLines(Tail(lines))
      ELSE ClientLines(Tail(lines))

\* options.x || DEFAULT_OPTIONS.x and options.model || MODELS.GEMINI_FLASH
PostOptions(o) ==
  [model |-> IF o.model = "" THEN GEMINI_FLASH ELSE o.model,
   temperature |-> OrDefault(o.temperature, 7),
   max_tokens |-> OrDefault(o.max_tokens, 4096)]

(***************************************************************************)
(* Dispatcher: inputs                                                       *)
(***************************************************************************)
\* the lines a relay response body is made of: each event is a data line
\* followed by an empty line
ClientLineKinds ==
  { <<DATA, COPEN, "Hel", CCLOSE>>, <<DATA, COPEN, "lo", CCLOSE>>,
    <<DATA, GARBAGE>>, <<DATA, NOCONTENT>> }

RECURSIVE JoinEvents(_)
JoinEvents(lines) ==
  IF lines = <<>> THEN <<>> ELSE Head(lines) \o <<NL, NL>> \o JoinEvents(Tail(lines))

ResponseBodies == Seqs(ClientLineKinds, MaxLines)

FewResponseBodies == {<<>>, << <<DATA, COPEN, "Hel", CCLOSE>> >>}

\* the JSON error responses of the relay: status and error field
RelayErrors ==
  { [status |-> 401, error |-> ErrNoToken], [status |-> 401, error |-> ErrUserAuth],
    [status |-> 400, error |-> ErrMessagesEmpty], [status |-> 400, error |-> ErrModelRequired],
    [status |-> 401, error |-> ErrUpstreamAuth], [status |-> 429, error |-> ErrUpstreamRate],
    [status |-> 400, error |-> ErrUpstreamBadRequest],
    [status |-> 500, error |-> ErrUpstreamGeneric], [status |-> 500, error |-> ErrThrown],
    [status |-> 500, error |-> <<>>] }

\* the words an error text of the relay's response is made of, and the texts
ErrorWords ==
  { KeyNotConfigured, KeyNotConfiguredZh, KeyAuthFailed, KeyAuthentication,
    KeyTooFrequent, Key429, KeyToken, KeyContextLength, KeyNetwork, KeyTimeout,
    KeyFetchFailed, "x" }

ErrorTexts == Seqs(ErrorWords, MaxWords) \ {<<>>}

DispatcherOptions ==
  {[model |-> m, temperature |-> t, max_tokens |-> mt] :
     m \in {"", "m1"}, t \in {Absent, 0, 5}, mt \in {Absent, 0, 100}}

DispatcherMessages ==
  { <<>>, <<Msg("user", <<"x">>)>>,
    <<Msg("system", <<"x", OPEN, SENT, "a", CLOSE>>), Msg("user", <<"x">>)>> }

NominalMessages == <<Msg("user", <<"x">>)>>

(***************************************************************************)
(* Dispatcher: generate and generateStream                                  *)
(***************************************************************************)
InitDispatcher ==
  /\ entry \in {"generate", "generateStream"}
  /\ \E ms \in DispatcherMessages : \E u \in Users \cup {NoUser} :
       /\ RwStart(ms, NominalStore, u)
  /\ messagesGiven \in BOOLEAN
  /\ messagesGiven = FALSE => messages = <<>>
  /\ onChunkIsFn \in BOOLEAN
  /\ hasWindow \in BOOLEAN
  /\ options \in DispatcherOptions
  /\ (messages # NominalMessages \/ sessionUser = NoUser) => options = NominalOptions
  /\ (~onChunkIsFn \/ ~hasWindow \/ ~messagesGiven) =>
        (options = NominalOptions /\ sessionUser # NoUser)
  /\ sessionToken = IF sessionUser = NoUser THEN <<>> ELSE <<GoodToken>>
  /\ dPc = "start"
  /\ posts = <<>>
  /\ respStatus = 0
  /\ cstream = <<>>
  /\ cEnd = "done"
  /\ fullContent = <<>>
  /\ chunks = <<>>
  /\ dError = NoError
  /\ dResult = NoResult
  /\ cLines = <<>>
  /\ cSplit = FALSE
  /\ abortFired = FALSE
  /\ tokenCalls = 0

Return(value) ==
  /\ dResult' = [kind |-> "return", name |-> "none", value |-> value]
  /\ dPc' = "done"

Throw(name, message) ==
  /\ dResult' = [kind |-> "throw", name |-> name, value |-> message]
  /\ dPc' = "done"

Caught(name, dom, message) ==
  /\ dError' = [name |-> name, dom |-> dom, message |-> message]
  /\ dPc' = "catch"

EmptyInputMissingOnly ==
  \/ ~messagesGiven
  \/ (entry = "generateStream" /\ ~onChunkIsFn)

\* line 210 and line 299
EmptyInput ==
  \/ ~messagesGiven \/ Len(messages) = 0
  \/ (entry = "generateStream" /\ ~onChunkIsFn)

\* lines 210 and 299: nothing to do
DReturnEmpty ==
  /\ dPc = "start"
  /\ EmptyInput
  /\ Return(<<>>)
  /\ UNCHANGED <<entry, messagesGiven, onChunkIsFn, hasWindow, options, sessionToken,
                 posts, respStatus, cstream, cEnd, fullContent, chunks, dError, cLines,
                 cSplit>>
  /\ UNCHANGED <<abortFired, tokenCalls>>
  /\ UNCHANGED <<rwVars, relayVars, repoVars>>

\* lines 213-215 and 302-304: not in a browser
DNoWindow ==
  /\ dPc = "start"
  /\ ~EmptyInput
  /\ ~hasWindow
  /\ Throw("Error", ErrNoBrowser)
  /\ UNCHANGED <<entry, messagesGiven, onChunkIsFn, hasWindow, options, sessionToken,
                 posts, respStatus, cstream, cEnd, fullContent, chunks, dError, cLines,
                 cSplit>>
  /\ UNCHANGED <<abortFired, tokenCalls>>
  /\ UNCHANGED <<rwVars, relayVars, repoVars>>

\* lines 219 and 308: call decryptPromptMessages(messages)
DCallRewriter ==
  /\ dPc = "start"
  /\ ~EmptyInput
  /\ hasWindow
  /\ dPc' = "rewrite"
  /\ UNCHANGED <<entry, messagesGiven, onChunkIsFn, hasWindow, options, sessionToken,
                 posts, respStatus, cstream, cEnd, fullContent, chunks, dError, dResult,
                 cLines, cSplit>>
  /\ UNCHANGED <<abortFired, tokenCalls>>
  /\ UNCHANGED <<rwVars, relayVars, repoVars>>

\* the credential is requested while the rewriter is still running
DGetTokenEarly ==
  /\ dPc = "rewrite"
  /\ IF sessionToken = <<>>
     THEN Caught("Error", FALSE, ErrNotLoggedIn)
     ELSE dPc' = "post" /\ UNCHANGED dError
  /\ UNCHANGED <<entry, messagesGiven, onChunkIsFn, hasWindow, options, sessionToken,
                 posts, respStatus, cstream, cEnd, fullContent, chunks, dResult, cLines,
                 cSplit>>
  /\ tokenCalls' = tokenCalls + 1
  /\ UNCHANGED abortFired
  /\ UNCHANGED <<rwVars, relayVars, repoVars>>

\* lines 179-194, 222 and 311: getUserToken
DGetToken ==
  /\ dPc = "rewrite"
  /\ rwPc = "done"
  /\ IF sessionToken = <<>>
     THEN Caught("Error", FALSE, ErrNotLoggedIn)
     ELSE dPc' = "post" /\ UNCHANGED dError
  /\ UNCHANGED <<entry, messagesGiven, onChunkIsFn, hasWindow, options, sessionToken,
                 posts, respStatus, cstream, cEnd, fullContent, chunks, dResult, cLines,
                 cSplit>>
  /\ tokenCalls' = tokenCalls + 1
  /\ UNCHANGED abortFired
  /\ UNCHANGED <<rwVars, relayVars, repoVars>>

\* the request of lines 230-244 and 326-340
PostRequest ==
  [messages |-> decryptedMessages,
   options |-> PostOptions(options),
   authorization |-> <<BEARER>> \o sessionToken]

\* fetch rejects: a network failure, or an abort of the request
DPostRejects ==
  /\ dPc = "post"
  /\ posts' = Append(posts, PostRequest)
  /\ \/ Caught("TypeError", FALSE, ErrFailedToFetch)
     \/ Caught("AbortError", TRUE, ErrAborted)
  /\ UNCHANGED <<entry, messagesGiven, onChunkIsFn, hasWindow, options, sessionToken,
                 respStatus, cstream, cEnd, fullContent, chunks, dResult, cLines, cSplit>>
  /\ UNCHANGED <<abortFired, tokenCalls>>
  /\ UNCHANGED <<rwVars, relayVars, repoVars>>

\* the request is sent a second time after a first error answer
DPostErrorRetries ==
  /\ dPc = "post"
  /\ posts' = Append(posts, PostRequest)
  /\ \E e \in RelayErrors :
       /\ respStatus' = e.status
       /\ IF posts = <<>>
          THEN UNCHANGED <<dError, dPc>>
          ELSE Caught("Error", FALSE, IF e.error = <<>> THEN ErrRequestFailed ELSE e.error)
  /\ UNCHANGED <<entry, messagesGiven, onChunkIsFn, hasWindow, options, sessionToken,
                 cstream, cEnd, fullContent, chunks, dResult, cLines, cSplit>>
  /\ UNCHANGED <<abortFired, tokenCalls>>
  /\ UNCHANGED <<rwVars, relayVars, repoVars>>

\* lines 246-249 and 342-345: the relay answers with an error
DPostError ==
  /\ dPc = "post"
  /\ posts' = Append(posts, PostRequest)
  /\ \E e \in RelayErrors \cup
               (IF options = NominalOptions /\ messages = NominalMessages
                THEN {[status |-> 500, error |-> t] : t \in ErrorTexts} ELSE {}) :
       /\ respStatus' = e.status
       /\ Caught("Error", FALSE, IF e.error = <<>> THEN ErrRequestFailed ELSE e.error)
  /\ UNCHANGED <<entry, messagesGiven, onChunkIsFn, hasWindow, options, sessionToken,
                 cstream, cEnd, fullContent, chunks, dResult, cLines, cSplit>>
  /\ UNCHANGED <<abortFired, tokenCalls>>
  /\ UNCHANGED <<rwVars, relayVars, repoVars>>

\* lines 230-253 and 326-351: the relay answers 200 with an event stream
DPostOk ==
  /\ dPc = "post"
  /\ posts' = Append(posts, PostRequest)
  /\ respStatus' = 200
  /\ \E lines \in (IF options = NominalOptions /\ messages = NominalMessages
                   THEN ResponseBodies ELSE FewResponseBodies) :
       /\ cLines' = lines
       /\ cstream' = JoinEvents(lines)
  /\ cEnd' \in {"done", "error", "abort", "nobody", "hang"}
  /\ dPc' = "read"
  /\ UNCHANGED <<entry, messagesGiven, onChunkIsFn, hasWindow, options, sessionToken,
                 fullContent, chunks, dError, dResult, cSplit>>
  /\ UNCHANGED <<abortFired, tokenCalls>>
  /\ UNCHANGED <<rwVars, relayVars, repoVars>>

\* the chunk ends with the empty line that ends an event
AtEventBoundary(rest, n) == n >= 2 /\ rest[n] = NL /\ rest[n - 1] = NL

\* lines 257-277 and 354-374: one read that delivers the next n tokens
DReadChunk ==
  /\ dPc = "read"
  /\ cEnd # "nobody"
  /\ \E n \in 1..Len(cstream) :
       LET found == ClientLines(Split(SubSeq(cstream, 1, n))) IN
         /\ cstream' = SubSeq(cstream, n + 1, Len(cstream))
         /\ cSplit' = (cSplit \/ ~AtEventBoundary(cstream, n))
         /\ IF entry = "generate"
            THEN fullContent' = fullContent \o Concat(found) /\ UNCHANGED chunks
            ELSE chunks' = chunks \o found /\ UNCHANGED fullContent
  /\ UNCHANGED <<entry, messagesGiven, onChunkIsFn, hasWindow, options, sessionToken,
                 dPc, posts, respStatus, cEnd, dError, dResult, cLines>>
  /\ UNCHANGED <<abortFired, tokenCalls>>
  /\ UNCHANGED <<rwVars, relayVars, repoVars>>

\* lines 256-280 and 353-375: the reader reports done, or there is no body
DReadDone ==
  /\ dPc = "read"
  /\ \/ cEnd = "nobody"
     \/ (cEnd = "done" /\ cstream = <<>>)
  /\ Return(IF entry = "generate" THEN fullContent ELSE <<>>)
  /\ UNCHANGED <<entry, messagesGiven, onChunkIsFn, hasWindow, options, sessionToken,
                 posts, respStatus, cstream, cEnd, fullContent, chunks, dError, cLines,
                 cSplit>>
  /\ UNCHANGED <<abortFired, tokenCalls>>
  /\ UNCHANGED <<rwVars, relayVars, repoVars>>

\* a read rejects, at any point of the body: the connection failed, or the
\* request was aborted
DReadError ==
  /\ dPc = "read"
  /\ \/ (cEnd = "error" /\ Caught("TypeError", FALSE, <<KeyNetwork, " error">>))
     \/ (cEnd = "abort" /\ Caught("AbortError", TRUE, ErrAborted))
  /\ UNCHANGED <<entry, messagesGiven, onChunkIsFn, hasWindow, options, sessionToken,
                 posts, respStatus, cstream, cEnd, fullContent, chunks, dResult, cLines,
                 cSplit>>
  /\ UNCHANGED <<abortFired, tokenCalls>>
  /\ UNCHANGED <<rwVars, relayVars, repoVars>>

\* the caller fires the signal it passed as options.abortSignal; neither
\* entry point reads that field (lines 225-244 and 314-340 pass no signal to
\* fetch), so nothing but the signal changes
DAbortSignal ==
  /\ dPc \in {"rewrite", "post", "read"}
  /\ ~abortFired
  /\ abortFired' = TRUE
  /\ UNCHANGED <<entry, messagesGiven, onChunkIsFn, hasWindow, options, sessionToken,
                 dPc, posts, respStatus, cstream, cEnd, fullContent, chunks, dError,
                 dResult, cLines, cSplit, tokenCalls>>
  /\ UNCHANGED <<rwVars, relayVars, repoVars>>

\* lines 381-386: only generateStream tests for the abort
RethrowsAbort(e) == entry = "generateStream" /\ e.dom /\ e.name = "AbortError"

\* lines 281-285 and 377-390
DCatch ==
  /\ dPc = "catch"
  /\ IF RethrowsAbort(dError)
     THEN Throw("AbortError", <<"AbortError">>)
     ELSE Throw("Error", HandleAIError(dError.message))
  /\ UNCHANGED <<entry, messagesGiven, onChunkIsFn, hasWindow, options, sessionToken,
                 posts, respStatus, cstream, cEnd, fullContent, chunks, dError, cLines,
                 cSplit>>
  /\ UNCHANGED <<abortFired, tokenCalls>>
  /\ UNCHANGED <<rwVars, relayVars, repoVars>>

\* decryptPromptMessages running inside the call
DRewrite ==
  /\ dPc = "rewrite"
  /\ NextRewriter

NextDispatcher ==
  \/ DReturnEmpty
  \/ DNoWindow
  \/ DCallRewriter
  \/ DRewrite
  \/ DGetToken
  \/ DPostRejects
  \/ DPostError
  \/ DPostOk
  \/ DReadChunk
  \/ DReadDone
  \/ DReadError
  \/ DAbortSignal
  \/ DCatch

(***************************************************************************)
(* Prompt repository (promptRepository.ts).  encryptPrompt, decryptPrompt   *)
(* and decryptPrompts (lib/promptEncryptionManager) and dbOperations        *)
(* (database/core/operations) are not among the source files.               *)
(***************************************************************************)
\* prompt.id of a record that was never persisted
NoId == 0

\* the bound of the Nested-Encryption Resolver
ResolverAttempts == 3

RepoUsers == {"u1", "u2"}

Times == 1..MaxTime

Range(f) == {f[k] : k \in DOMAIN f}

\* what a caller passes as content: text it typed, or text it read from the
\* store without decryption
RepoContents(u) ==
  {<<"x">>, <<"x", "y">>, EncryptText(<<"x">>, GenerateEncryptionKey(u))}

\* encryptPrompt: the record with its content passed through encrypt
EncryptPrompt(rec, u) ==
  [rec EXCEPT !.content = EncryptText(rec.content, GenerateEncryptionKey(u))]

\* the Nested-Encryption Resolver: decrypt while the value has the ciphertext
\* prefix, at most n times
RECURSIVE Resolve(_, _, _)
Resolve(c, key, n) ==
  IF n = 0 \/ ~StartsWith(c, U2F) THEN c
  ELSE LET d == DecryptText(c, key, "noop") IN
         IF d.val = c THEN c ELSE Resolve(d.val, key, n - 1)

\* decryptPrompt: the record with its content passed through the resolver
DecryptPrompt(rec, u) ==
  [rec EXCEPT !.content = Resolve(rec.content, GenerateEncryptionKey(u), ResolverAttempts)]

\* decryptPrompts: decryptPrompt on every record, in the order given
DecryptPrompts(recs, u) == [k \in 1..Len(recs) |-> DecryptPrompt(recs[k], u)]

\* dbOperations.add: the record is stored under a new id
DbAdd(recs, rec) == Append(recs, [rec EXCEPT !.id = Len(recs) + 1])

\* dbOperations.update: the record replaces the stored record of the same id
DbUpdate(recs, rec) == [k \in 1..Len(recs) |-> IF recs[k].id = rec.id THEN rec ELSE recs[k]]

\* prompts.sort((a, b) => b.updatedAt - a.updatedAt): insertion of r into a
\* list sorted by updatedAt descending, after the records of the same date
RECURSIVE InsertByUpdatedAt(_, _)
InsertByUpdatedAt(r, sorted) ==
  IF sorted = <<>> THEN <<r>>
  ELSE IF Head(sorted).updatedAt >= r.updatedAt
       THEN <<Head(sorted)>> \o InsertByUpdatedAt(r, Tail(sorted))
       ELSE <<r>> \o sorted

SortUnchanged(recs) == recs

\* line 35
RECURSIVE SortByUpdatedAtDesc(_)
SortByUpdatedAtDesc(recs) ==
  IF recs = <<>> THEN <<>>
  ELSE InsertByUpdatedAt(recs[Len(recs)], SortByUpdatedAtDesc(SubSeq(recs, 1, Len(recs) - 1)))

NoCall == [op |-> "none", id |-> NoId, content |-> <<>>, updatedAt |-> 0, flag |-> FALSE]

NoRecords == [kind |-> "none", records |-> <<>>]

InitRepository ==
  /\ db = <<>>
  /\ repoUser \in RepoUsers
  /\ repoArg = NoCall
  /\ repoResult = NoRecords
  /\ encryptCalls = 0
  /\ dbWrites = 0
  /\ wrote = <<>>
  /\ pageHistory = <<>>

\* lines 17-23
RepoAddPrompt ==
  /\ repoArg.op # "idle"
  /\ Len(db) < MaxPrompts /\ encryptCalls < MaxOps
  /\ \E c \in RepoContents(repoUser), t \in Times :
       LET rec == [id |-> NoId, content |-> c, updatedAt |-> t]
           stored == DbAdd(db, EncryptPrompt(rec, repoUser))
       IN /\ repoArg' = [op |-> "add", id |-> NoId, content |-> c, updatedAt |-> t,
                         flag |-> FALSE]
          /\ db' = stored
          /\ repoResult' = [kind |-> "ok", records |-> <<stored[Len(stored)]>>]
          /\ wrote' = Append(wrote, [by |-> "add", content |-> c])
          /\ pageHistory' = Append(pageHistory, [added |-> c, saves |-> 0, direct |-> FALSE])
  /\ encryptCalls' = encryptCalls + 1
  /\ dbWrites' = dbWrites + 1
  /\ UNCHANGED repoUser
  /\ UNCHANGED <<rwVars, relayVars, dVars>>

IdAbsentNever(id) == FALSE

\* line 93: !prompt.id
IdAbsent(id) == id = NoId

UpdatePromptPlain(rec, u) == rec

\* lines 95-96: what updatePrompt hands to dbOperations.update
UpdatePromptStored(rec, u) == EncryptPrompt(rec, u)

\* lines 92-100
RepoUpdatePrompt ==
  /\ repoArg.op # "idle"
  /\ \E id \in {NoId} \cup 1..Len(db), c \in RepoContents(repoUser), t \in Times :
       LET rec == [id |-> id, content |-> c, updatedAt |-> t] IN
         /\ repoArg' = [op |-> "update", id |-> id, content |-> c, updatedAt |-> t,
                        flag |-> FALSE]
         /\ IF IdAbsent(id)
            THEN /\ repoResult' = [kind |-> "throw", records |-> <<>>]
                 /\ UNCHANGED <<db, encryptCalls, dbWrites, wrote, pageHistory>>
            ELSE /\ encryptCalls < MaxOps
                 /\ db' = DbUpdate(db, UpdatePromptStored(rec, repoUser))
                 /\ repoResult' = [kind |-> "ok",
                                   records |-> <<UpdatePromptStored(rec, repoUser)>>]
                 /\ encryptCalls' = encryptCalls + 1
                 /\ dbWrites' = dbWrites + 1
                 /\ wrote' = [k \in 1..Len(wrote) |->
                                IF k = id THEN [by |-> "update", content |-> c]
                                ELSE wrote[k]]
                 /\ pageHistory' = [pageHistory EXCEPT
                                     ![id] = [added |-> <<>>, saves |-> 0, direct |-> TRUE]]
  /\ UNCHANGED repoUser
  /\ UNCHANGED <<rwVars, relayVars, dVars>>

\* lines 30-43
RepoGetAllPrompts ==
  /\ repoArg.op # "idle"
  /\ \E flag \in BOOLEAN :
       LET sortedPrompts == SortByUpdatedAtDesc(db) IN
         /\ repoArg' = [op |-> "getAll", id |-> NoId, content |-> <<>>, updatedAt |-> 0,
                        flag |-> flag]
         /\ repoResult' = [kind |-> "ok",
                           records |-> IF flag THEN DecryptPrompts(sortedPrompts, repoUser)
                                       ELSE sortedPrompts]
  /\ UNCHANGED <<db, repoUser, encryptCalls, dbWrites, wrote, pageHistory>>
  /\ UNCHANGED <<rwVars, relayVars, dVars>>

GetByIdResultRaw(rec, flag, u) == rec

\* lines 79-84
GetByIdResult(rec, flag, u) == IF flag THEN DecryptPrompt(rec, u) ELSE rec

\* the record getPromptById found
StoredRecord(id) == CHOOSE r \in Range(db) : r.id = id

\* lines 72-85
RepoGetPromptById ==
  /\ repoArg.op # "idle"
  /\ \E id \in 1..MaxPrompts, flag \in BOOLEAN :
       /\ repoArg' = [op |-> "getById", id |-> id, content |-> <<>>, updatedAt |-> 0,
                      flag |-> flag]
       /\ IF ~GetPromptById(Range(db), id).found
          THEN repoResult' = [kind |-> "null", records |-> <<>>]
          ELSE repoResult' =
                 [kind |-> "ok",
                  records |-> <<GetByIdResult(StoredRecord(id), flag, repoUser)>>]
  /\ UNCHANGED <<db, repoUser, encryptCalls, dbWrites, wrote, pageHistory>>
  /\ UNCHANGED <<rwVars, relayVars, dVars>>

\* the prompt page (route.ts lines 350-371, 459-465 and 803-829): the list is
\* loaded by getUserPromptsByType without the decrypt flag, the record the
\* user opens is copied into the editor, and the save handler passes the copy
\* with a new updatedAt to updatePrompt, then reloads the list
PageSave ==
  /\ repoArg.op # "idle"
  /\ \E id \in 1..Len(db), t \in Times :
       LET loaded == db[id]
           editedPrompt == [loaded EXCEPT !.updatedAt = t]
           stored == DbUpdate(db, UpdatePromptStored(editedPrompt, repoUser))
       IN /\ Layers(loaded.content, GenerateEncryptionKey(repoUser)) < MaxLayers
          /\ db' = stored
          /\ wrote' = [wrote EXCEPT ![id] = [by |-> "update", content |-> loaded.content]]
          /\ pageHistory' = [pageHistory EXCEPT ![id].saves = @ + 1]
          /\ repoArg' = [op |-> "getByType", id |-> NoId, content |-> <<>>,
                         updatedAt |-> 0, flag |-> FALSE]
          /\ repoResult' = [kind |-> "ok", records |-> stored]
  /\ encryptCalls' = encryptCalls + 1
  /\ dbWrites' = dbWrites + 1
  /\ UNCHANGED repoUser
  /\ UNCHANGED <<rwVars, relayVars, dVars>>

NextRepository ==
  \/ RepoAddPrompt
  \/ RepoUpdatePrompt
  \/ RepoGetAllPrompts
  \/ RepoGetPromptById

(***************************************************************************)
(* Specifications                                                           *)
(***************************************************************************)
\* no repository call can be made
RepositoryIdle ==
  /\ db = <<>>
  /\ repoUser = "u1"
  /\ repoArg = [NoCall EXCEPT !.op = "idle"]
  /\ repoResult = NoRecords
  /\ encryptCalls = 0
  /\ dbWrites = 0
  /\ wrote = <<>>
  /\ pageHistory = <<>>

\* no rewriter call in progress
RewriterIdle == RwStart(<<>>, {}, NoUser)

\* no dispatcher call in progress
DispatcherIdle ==
  /\ entry = "generate"
  /\ messagesGiven = TRUE
  /\ onChunkIsFn = TRUE
  /\ hasWindow = TRUE
  /\ options = NominalOptions
  /\ sessionToken = <<>>
  /\ dPc = "idle"
  /\ posts = <<>>
  /\ respStatus = 0
  /\ cstream = <<>>
  /\ cEnd = "done"
  /\ fullContent = <<>>
  /\ chunks = <<>>
  /\ dError = NoError
  /\ dResult = NoResult
  /\ cLines = <<>>
  /\ cSplit = FALSE
  /\ abortFired = FALSE
  /\ tokenCalls = 0

\* no relay request in progress
RelayIdle ==
  /\ reqHeader = <<>>
  /\ reqBody = NominalBody
  /\ relayPc = "idle"
  /\ authReply = "none"
  /\ relayStatus = 0
  /\ relayError = <<>>
  /\ upstreamReqs = <<>>
  /\ upstream = <<>>
  /\ upstreamEnd = "done"
  /\ out = <<>>
  /\ outState = "none"
  /\ upLines = <<>>
  /\ readSplit = FALSE
  /\ upstreamStatus = 0
  /\ raised = "none"

\* one call of decryptPromptMessages
InitSpecRewriter == InitRewriter /\ RelayIdle /\ DispatcherIdle /\ RepositoryIdle

SpecRewriter == InitSpecRewriter /\ [][NextRewriter]_vars

\* one call of generate or generateStream
InitSpecDispatcher == InitDispatcher /\ RelayIdle /\ RepositoryIdle

SpecDispatcher == InitSpecDispatcher /\ [][NextDispatcher]_vars

\* one request to the relay
InitSpecRelay == InitRelay /\ RewriterIdle /\ DispatcherIdle /\ RepositoryIdle

SpecRelay == InitSpecRelay /\ [][NextRelay]_vars

\* a sequence of repository calls
InitSpecRepository == InitRepository /\ RewriterIdle /\ DispatcherIdle /\ RelayIdle

SpecRepository == InitSpecRepository /\ [][NextRepository]_vars

\* prompts created and then edited and saved on the prompt page
InitSpecPromptPage == InitRepository /\ RewriterIdle /\ DispatcherIdle /\ RelayIdle

NextPromptPage == RepoAddPrompt \/ PageSave

SpecPromptPage == InitSpecPromptPage /\ [][NextPromptPage]_vars

\* one stream read by either layer: a request to the relay, or a call of
\* generate or generateStream
InitSpecStreams == InitSpecRelay \/ InitSpecDispatcher

NextStreams == NextRelay \/ NextDispatcher

SpecStreams == InitSpecStreams /\ [][NextStreams]_vars

\* the same, with the event loop running every continuation that is ready:
\* a step that stays possible is eventually taken
SpecStreamsFair == SpecStreams /\ WF_vars(NextStreams)

(***************************************************************************)
(* Properties of decryptPromptMessages                                      *)
(***************************************************************************)
Positions == 1..Len(messages)

Settled(i) == outcome[i] # "pending"

Rewritten(i) == outcome[i] \in {"new", "legacy"}

\* the stored content the message at position i refers to
Referenced(i) == GetPromptById(store, PromptIdMatch(messages[i].content).id)

UserKey == GenerateEncryptionKey(sessionUser)

\* position i refers to an existing prompt that is plaintext p (not
\* ciphertext-shaped) encrypted n times with the current user's key
RefersToNested(i, n) ==
  /\ messages[i].role = "system" /\ Includes(messages[i].content, SENT)
  /\ PromptIdMatch(messages[i].content).found
  /\ Referenced(i).found
  /\ sessionUser # NoUser
  /\ Layers(Referenced(i).content, UserKey) = n
  /\ ~StartsWith(Plain(Referenced(i).content, UserKey), U2F)

\* C1: a prompt stored as plaintext P (not ciphertext-shaped) encrypted 1, 2 or
\* 3 times with the current user's key is rewritten, and the content injected
\* into the message is exactly P.
C1_BoundedRecovery ==
  \A i \in Positions : \A n \in 1..3 :
    (RefersToNested(i, n) /\ Settled(i)) =>
      /\ Rewritten(i)
      /\ injected[i] = Plain(Referenced(i).content, UserKey)
      /\ i \notin warned

C1_Witness ==
  \E i \in Positions :
    /\ RefersToNested(i, 3) /\ Rewritten(i)
    /\ injected[i] = <<"x">>

\* C2 as stated: a prompt encrypted N > 3 times (N = 4 included) is rewritten
\* without a throw, the injected content is still ciphertext-shaped and the
\* warning is emitted.
C2_ResidualAboveThree ==
  \A i \in Positions : \A n \in 4..(MaxLayers + 1) :
    (RefersToNested(i, n) /\ Settled(i)) =>
      /\ Rewritten(i)
      /\ StartsWith(injected[i], U2F)
      /\ i \in warned

\* C2 amended: the resolver unwinds four layers (one decryption and three
\* repetitions); a prompt encrypted N > 4 times is rewritten without a throw,
\* the injected content is still ciphertext-shaped and the warning is emitted,
\* and one encrypted exactly 4 times is recovered without a warning.
C2_ResidualAboveFour ==
  \A i \in Positions :
    /\ \A n \in 5..(MaxLayers + 1) :
         (RefersToNested(i, n) /\ Settled(i)) =>
           /\ Rewritten(i)
           /\ StartsWith(injected[i], U2F)
           /\ injected[i] = Nest(Plain(Referenced(i).content, UserKey), UserKey, n - 4)
           /\ i \in warned
    /\ (RefersToNested(i, 4) /\ Settled(i)) =>
           /\ Rewritten(i)
           /\ injected[i] = Plain(Referenced(i).content, UserKey)
           /\ i \notin warned

C2_Witness ==
  \E i \in Positions :
    /\ RefersToNested(i, 5) /\ Rewritten(i)
    /\ StartsWith(injected[i], U2F) /\ i \in warned

\* s has t as a contiguous part starting at 1-based position k
HasAt(s, t, k) == k >= 1 /\ k + Len(t) - 1 <= Len(s) /\ SubSeq(s, k, k + Len(t) - 1) = t

\* the anti-exfiltration guard: the rule block that forbids revealing the prompt
HasLeakGuard(s) == \E k \in 1..Len(s) : HasAt(s, <<RULE, LEAKTEXT, RULE>>, k)

\* C3: every rewritten message (new format or legacy format) that carries
\* decrypted prompt text also carries the anti-exfiltration guard rule.
C3_GuardAlwaysPresent ==
  \A i \in Positions :
    (Rewritten(i) /\ injected[i] # <<>>) => HasLeakGuard(decryptedMessages[i].content)

HasRegion(s) ==
  \E a \in 1..Len(s) : \E b \in (a + 1)..Len(s) : s[a] = OPEN /\ s[b] = CLOSE

HasGuardBlock(s) == Includes(s, RULE2) /\ Includes(s, RULE2END)

\* C4: a new-format rewrite of a message with a delimited region, wherever the
\* region starts, contains the region filled with the decrypted content and,
\* when the original had no guard block, a guard block immediately before it.
C4_NewFormatRewrite ==
  \A i \in Positions :
    (outcome[i] = "new" /\ HasRegion(messages[i].content)) =>
      LET res == decryptedMessages[i].content
          region == <<OPEN>> \o injected[i] \o <<CLOSE>>
      IN /\ \E k \in 1..Len(res) : HasAt(res, region, k)
         /\ ~HasGuardBlock(messages[i].content) =>
              \E k \in 1..Len(res) : HasAt(res, Rule2Content \o region, k)

\* no id follows any occurrence of the sentinel
NoIdAfterSentinel(s) ==
  ~\E k \in 1..(Len(s) - 1) : s[k] = SENT /\ s[k + 1] \in IdChars

\* the id after the first sentinel that has one
IdAfterSentinel(s) ==
  LET k == CHOOSE k \in 1..(Len(s) - 1) :
             /\ s[k] = SENT /\ s[k + 1] \in IdChars
             /\ \A j \in 1..(k - 1) : ~(s[j] = SENT /\ s[j + 1] \in IdChars)
      e == CHOOSE e \in (k + 1)..Len(s) :
             /\ \A j \in (k + 1)..e : s[j] \in IdChars
             /\ (e = Len(s) \/ s[e + 1] \notin IdChars)
  IN SubSeq(s, k + 1, e)

MustFallBack(i) ==
  LET s == messages[i].content IN
    \/ NoIdAfterSentinel(s)
    \/ ~\E p \in store : p.id = IdAfterSentinel(s)
    \/ sessionUser = NoUser
    \/ i \in decryptThrew

\* C5: a system message with the sentinel for which no id can be extracted, no
\* prompt with the id exists, no user is authenticated or decryption throws is
\* emitted unchanged at its position, and the call still returns.
C5_Fallback ==
  /\ \A i \in Positions :
       ( /\ Settled(i)
         /\ messages[i].role = "system" /\ Includes(messages[i].content, SENT)
         /\ MustFallBack(i) ) =>
           /\ outcome[i] = "fallback"
           /\ decryptedMessages[i] = messages[i]
  /\ rwPc = "catch" => ENABLED RwCatch
  /\ rwPc = "done" => Len(decryptedMessages) = Len(messages)

C5_Witness ==
  /\ rwPc = "done"
  /\ \E i \in Positions :
       /\ i \in decryptThrew /\ outcome[i] = "fallback"
       /\ decryptedMessages[i] = messages[i]

\* C6: a message that is not a system message, or a system message without
\* the sentinel, is emitted with the same role and content, and no prompt
\* lookup, user lookup or decryption happens for it.
C6_PassThrough ==
  \A i \in Positions :
    (messages[i].role # "system" \/ ~Includes(messages[i].content, SENT)) =>
      /\ i \notin promptLookups
      /\ i \notin userLookups
      /\ decryptCalls[i] = 0
      /\ Settled(i) =>
           /\ decryptedMessages[i].role = messages[i].role
           /\ decryptedMessages[i].content = messages[i].content

C6_Witness ==
  /\ rwPc = "done"
  /\ \E i \in Positions :
       /\ messages[i].role = "assistant" /\ Includes(messages[i].content, SENT)
       /\ decryptedMessages[i] = messages[i]
  /\ \E i \in Positions : Rewritten(i)

(***************************************************************************)
(* Properties of the dispatcher's read loop                                 *)
(***************************************************************************)
IsContentEvent(line) ==
  /\ Len(line) >= 4 /\ line[1] = DATA /\ line[2] = COPEN /\ line[Len(line)] = CCLOSE
  /\ \A k \in 3..(Len(line) - 1) : line[k] \in DeltaChars

\* the deltas d1..dn the response body carries, in order
RECURSIVE Deltas(_)
Deltas(lines) ==
  IF lines = <<>> THEN <<>>
  ELSE (IF IsContentEvent(Head(lines))
        THEN <<SubSeq(Head(lines), 3, Len(Head(lines)) - 1)>> ELSE <<>>)
         \o Deltas(Tail(lines))

RECURSIVE Flatten(_)
Flatten(ss) == IF ss = <<>> THEN <<>> ELSE Head(ss) \o Flatten(Tail(ss))

\* the body was read to its end in chunks that hold complete events
ReadComplete ==
  /\ dPc = "done" /\ dResult.kind = "return"
  /\ respStatus = 200 /\ cEnd = "done" /\ ~cSplit

\* C7: when the relay's stream delivers the deltas d1..dn as complete events,
\* generate returns d1 + ... + dn and generateStream calls onChunk exactly n
\* times, once per delta, in order.
C7_DeltaDelivery ==
  ReadComplete =>
    /\ entry = "generate" => dResult.value = Flatten(Deltas(cLines))
    /\ entry = "generateStream" => chunks = Deltas(cLines)

C7_Witness ==
  /\ ReadComplete
  /\ entry = "generateStream"
  /\ chunks = << <<"Hel">>, <<"lo">> >>
  /\ Len(cLines) = 2

(***************************************************************************)
(* Properties of the relay                                                  *)
(***************************************************************************)
IsUpstreamContentLine(line) ==
  /\ Len(line) >= 4 /\ line[1] = DATA /\ line[2] = JOPEN /\ line[Len(line)] = JCLOSE
  /\ \A k \in 3..(Len(line) - 1) : line[k] \in DeltaChars

\* the lines sent before the first [DONE] line
RECURSIVE UntilDone(_)
UntilDone(lines) ==
  IF lines = <<>> \/ Head(lines) = <<DATA, DONE>> THEN <<>>
  ELSE <<Head(lines)>> \o UntilDone(Tail(lines))

\* one normalized event per data line with a non-empty content, in order
RECURSIVE Reframed(_)
Reframed(lines) ==
  IF lines = <<>> THEN <<>>
  ELSE (IF IsUpstreamContentLine(Head(lines))
        THEN << <<DATA, COPEN>> \o SubSeq(Head(lines), 3, Len(Head(lines)) - 1)
                   \o <<CCLOSE, NL, NL>> >>
        ELSE <<>>)
         \o Reframed(Tail(lines))

StreamEnded == relayPc = "done" /\ relayStatus = 200 /\ upstreamEnd = "done"

\* C8: the relay emits exactly one normalized event for each upstream data
\* line with a non-empty content, in order, nothing for any other line, and
\* closes its output when [DONE] is read.
C8_Reframing ==
  StreamEnded =>
    /\ out = Reframed(UntilDone(upLines))
    /\ outState = "closed"

IsPrefix(a, b) == Len(a) <= Len(b) /\ SubSeq(b, 1, Len(a)) = a

NoDoneLine == \A k \in 1..Len(upLines) : upLines[k] # <<DATA, DONE>>

\* C9: when the upstream body ends without a [DONE] line having been read the
\* relay's output is closed, and the events enqueued before stay enqueued.
C9_ClosedAtEnd ==
  /\ [](StreamEnded /\ NoDoneLine /\ upstream = <<>> => outState = "closed")
  /\ [][IsPrefix(out, out') /\ (outState = "closed" => out' = out)]_vars

C9_Witness ==
  /\ StreamEnded /\ NoDoneLine /\ upstream = <<>>
  /\ outState = "closed"
  /\ Len(out) = 2

\* C10: a request without an Authorization header, with one that does not
\* start with 'Bearer ', or with a token the session authority does not accept
\* is answered 401 with a non-empty error field.
C10_Unauthenticated ==
  LET noBearer == reqHeader = <<>> \/ reqHeader[1] # BEARER
      refused == authReply \in {"error", "nouser"}
  IN /\ (relayPc # "auth" /\ noBearer) =>
          (relayPc = "done" /\ relayStatus = 401 /\ relayError # <<>>)
     /\ refused => (relayPc = "done" /\ relayStatus = 401 /\ relayError # <<>>)
     /\ (noBearer \/ refused) => (upstreamReqs = <<>> /\ outState = "none")

C10_Witness ==
  /\ reqHeader = <<BEARER, "bad-token">>
  /\ authReply = "error"
  /\ relayStatus = 401 /\ relayError # <<>>

\* the messages field of the body is missing, is not an array, or is empty
MessagesMissingOrEmpty ==
  reqBody.messages.kind \in {"missing", "notArray"} \/ reqBody.messages.items = <<>>

\* the options field of the body, or its model, is missing
ModelMissing == reqBody.options.kind = "missing" \/ reqBody.options.model = ""

\* the request carried a bearer token that the session authority accepted and
\* its body was parsed
AuthenticatedAndParsed ==
  /\ authReply = "user" /\ reqBody.json
  /\ relayPc \notin {"auth", "getUser", "parse"}

\* C11: an authenticated request whose messages field is missing, not an
\* array or an empty array, or whose options or options.model is missing, is
\* answered 400 with the error message of the failed check.
C11_BodyValidation ==
  /\ (AuthenticatedAndParsed /\ MessagesMissingOrEmpty) =>
        (relayPc = "done" /\ relayStatus = 400 /\ relayError = ErrMessagesEmpty)
  /\ (AuthenticatedAndParsed /\ ~MessagesMissingOrEmpty /\ ModelMissing) =>
        (relayPc = "done" /\ relayStatus = 400 /\ relayError = ErrModelRequired)

C11_Witness ==
  /\ authReply = "user"
  /\ reqBody.messages = [kind |-> "array", items |-> <<>>]
  /\ reqBody.options.model = "m1"
  /\ relayPc = "done" /\ relayStatus = 400 /\ relayError = ErrMessagesEmpty

\* the error messages of the relay's own credential and body checks
OwnRejections == {ErrNoToken, ErrUserAuth, ErrMessagesEmpty, ErrModelRequired}

\* C12: a request goes to the upstream API only from the forwarding step, at
\* most once, and only for a request whose credential and body passed every
\* check; a request the relay's own checks answered 401 or 400 has sent none.
C12_NoForwardingOnRejection ==
  /\ [](upstreamReqs # <<>> =>
          /\ reqHeader # <<>> /\ reqHeader[1] = BEARER
          /\ authReply = "user" /\ reqBody.json
          /\ ~MessagesMissingOrEmpty /\ ~ModelMissing)
  /\ []((relayStatus \in {400, 401} /\ relayError \in OwnRejections) =>
          upstreamReqs = <<>>)
  /\ [][upstreamReqs' # upstreamReqs =>
          (relayPc = "fetch" /\ upstreamReqs = <<>> /\ Len(upstreamReqs') = 1)]_vars

C12_Witness ==
  /\ authReply = "user"
  /\ reqBody.messages.items # <<>>
  /\ reqBody.options.kind = "object" /\ reqBody.options.model = ""
  /\ relayPc = "done" /\ relayStatus = 400 /\ relayError = ErrModelRequired
  /\ upstreamReqs = <<>>

\* C13: every request sent upstream has stream = true, temperature 0.7 and
\* max_tokens 4096 where the client's options had no such field, and the
\* client's model and messages unchanged.
C13_UpstreamRequest ==
  \A k \in 1..Len(upstreamReqs) :
    LET r == upstreamReqs[k] IN
      /\ r.stream = TRUE
      /\ reqBody.options.temperature = Absent => r.temperature = 7
      /\ reqBody.options.max_tokens = Absent => r.max_tokens = 4096
      /\ r.model = reqBody.options.model
      /\ r.messages = reqBody.messages.items

C13_Witness ==
  /\ Len(upstreamReqs) = 1
  /\ reqBody.options.stream = "false"
  /\ reqBody.options.temperature = Absent /\ reqBody.options.max_tokens = 100
  /\ upstreamReqs[1].stream = TRUE
  /\ upstreamReqs[1].temperature = 7 /\ upstreamReqs[1].max_tokens = 100

\* the message the relay reports for an upstream status
ExpectedUpstreamMessage ==
  CASE upstreamStatus = 401 -> ErrUpstreamAuth
    [] upstreamStatus = 429 -> ErrUpstreamRate
    [] upstreamStatus = 400 -> ErrUpstreamBadRequest
    [] OTHER -> ErrUpstreamGeneric

C15_ExceptionGives500 ==
  raised \in {"fetch", "stream"} =>
     (relayPc = "done" /\ relayStatus = 500 /\ relayError # <<>>)

\* C15 amended: an exception raised before the streaming response is returned
\* (while forwarding) results in a JSON error response with status 500; an
\* exception raised while re-framing leaves the status at 200, reports no JSON
\* error, and puts the output stream in the errored state with the events
\* already enqueued kept.
C15_ExceptionBeforeResponse ==
  /\ [](raised = "fetch" =>
          (relayPc = "done" /\ relayStatus = 500 /\ relayError # <<>> /\ outState = "none"))
  /\ [](raised = "stream" =>
          (relayPc = "done" /\ relayStatus = 200 /\ relayError = <<>>
           /\ outState = "errored"))
  /\ [][raised' = "stream" => out' = out]_vars

C15_Witness ==
  /\ raised = "stream"
  /\ out # <<>>
  /\ relayStatus = 200 /\ outState = "errored"

(***************************************************************************)
(* Properties of generate and generateStream                                *)
(***************************************************************************)
\* the text contains the message m
Conveys(text, m) == \E k \in 1..Len(text) : HasAt(text, m, k)

\* the call has ended by throwing
Thrown == dPc = "done" /\ dResult.kind = "throw"

\* C16: when the session yields no access token, generate and generateStream
\* each end by throwing an error whose text carries the 'not logged in or
\* token expired' message.
C16_NotLoggedIn ==
  (dPc = "done" /\ tokenCalls > 0 /\ sessionToken = <<>>) =>
     (Thrown /\ Conveys(dResult.value, ErrNotLoggedIn))

\* the error messages the relay reports with a non-success status
RelayMessages ==
  { ErrNoToken, ErrUserAuth, ErrMessagesEmpty, ErrModelRequired, ErrUpstreamAuth,
    ErrUpstreamRate, ErrUpstreamBadRequest, ErrUpstreamGeneric, ErrThrown }

\* C17: when the relay answers with a non-success status, the error thrown
\* by generate and by generateStream carries the error message of the relay's
\* response, for each message the relay can report.
C17_SurfacesRelayError ==
  (dPc = "done" /\ respStatus # 0 /\ ~IsOk(respStatus) /\ dError.message \in RelayMessages) =>
     (Thrown /\ Conveys(dResult.value, dError.message))

\* C18: when the network operation is aborted, generate and generateStream
\* each end by throwing an error named AbortError that did not go through
\* handleAIError.
C18_AbortDistinguishable ==
  (dPc = "done" /\ dError.dom /\ dError.name = "AbortError") =>
     (Thrown /\ dResult.name = "AbortError" /\ dResult.value = <<"AbortError">>)

\* C19: once the caller's abort signal has fired, nothing more is read from
\* the response, onChunk is not called again and no more text is collected,
\* and the call ends by throwing the abort error.
C19_AbortStopsStream ==
  /\ [][abortFired =>
          /\ (dPc = "read" => cstream' = cstream)
          /\ chunks' = chunks /\ fullContent' = fullContent]_vars
  /\ []((abortFired /\ dPc = "done") => (Thrown /\ dResult.name = "AbortError"))

\* C20: a call of generate or generateStream with a missing or empty message
\* list ends in one step, returning the empty text (generateStream: returning
\* with onChunk never called), without running the rewriter, asking for the
\* session token or sending a request, and without throwing.
C20_EmptyInputNoOp ==
  (dPc # "idle" /\ (~messagesGiven \/ messages = <<>>)) =>
     /\ dPc \in {"start", "done"}
     /\ dPc = "done" => dResult = [kind |-> "return", name |-> "none", value |-> <<>>]
     /\ chunks = <<>> /\ fullContent = <<>>
     /\ rwPc = "loop" /\ decryptedMessages = <<>>
     /\ promptLookups = {} /\ userLookups = {}
     /\ tokenCalls = 0
     /\ posts = <<>>

C20_Witness ==
  /\ entry = "generateStream"
  /\ messagesGiven /\ messages = <<>>
  /\ ~hasWindow
  /\ dPc = "done" /\ dResult.kind = "return"
  /\ tokenCalls = 0 /\ posts = <<>>

(***************************************************************************)
(* Properties of the prompt repository                                      *)
(***************************************************************************)
\* content without the ciphertext prefix marker
IsPlaintext(c) == ~StartsWith(c, U2F)

\* C21: when getPromptById is called with the decrypt flag true for an id
\* that addPrompt returned for plaintext content P, under the same user, it
\* returns the record of that id with content exactly P.
C21_StoreRoundTrip ==
  (/\ repoArg.op = "getById" /\ repoArg.flag
   /\ repoArg.id \in DOMAIN wrote
   /\ wrote[repoArg.id].by = "add"
   /\ IsPlaintext(wrote[repoArg.id].content)) =>
     /\ repoResult.kind = "ok"
     /\ repoResult.records[1].id = repoArg.id
     /\ repoResult.records[1].content = wrote[repoArg.id].content

C21_Witness ==
  /\ repoUser = "u2"
  /\ repoArg.op = "getById" /\ repoArg.flag /\ repoArg.id = 2
  /\ Len(wrote) = 2 /\ wrote[2] = [by |-> "add", content |-> <<"x", "y">>]
  /\ repoResult.records[1].content = <<"x", "y">>

\* C22: every record addPrompt and updatePrompt wrote to the store has
\* content in ciphertext form: it is the encryption, under the user's key, of
\* the content the caller gave.
C22_EncryptedAtRest ==
  /\ Len(wrote) = Len(db)
  /\ \A k \in 1..Len(db) :
       /\ StartsWith(db[k].content, U2F)
       /\ db[k].content = EncryptText(wrote[k].content, GenerateEncryptionKey(repoUser))

C22_Witness ==
  /\ Len(db) = 2
  /\ wrote[1].by = "update" /\ wrote[2].by = "add"
  /\ IsPlaintext(wrote[1].content) /\ StartsWith(db[1].content, U2F)

\* C23: getAllPrompts returns every stored prompt once, ordered by updatedAt
\* descending, with the decrypt flag true and false.
C23_SortedDescending ==
  (repoArg.op = "getAll") =>
     /\ repoResult.kind = "ok"
     /\ Len(repoResult.records) = Len(db)
     /\ {repoResult.records[k].id : k \in 1..Len(repoResult.records)} = 1..Len(db)
     /\ \A k \in 1..(Len(repoResult.records) - 1) :
          repoResult.records[k].updatedAt >= repoResult.records[k + 1].updatedAt

C23_Witness ==
  /\ repoArg.op = "getAll" /\ repoArg.flag
  /\ Len(db) = 2 /\ db[1].updatedAt < db[2].updatedAt
  /\ repoResult.records[1].id = 2 /\ repoResult.records[2].id = 1

\* C24: a call of updatePrompt with a record whose id is absent throws, and
\* that call neither calls encryptPrompt nor writes to the store: the store
\* is as it was.
C24_UpdateWithoutId ==
  /\ []((repoArg.op = "update" /\ repoArg.id = NoId) => repoResult.kind = "throw")
  /\ [][(repoArg'.op = "update" /\ repoArg'.id = NoId) =>
          (db' = db /\ encryptCalls' = encryptCalls /\ dbWrites' = dbWrites)]_vars

C24_Witness ==
  /\ repoArg.op = "update" /\ repoArg.id = NoId
  /\ repoResult.kind = "throw"
  /\ db # <<>> /\ encryptCalls = dbWrites

(***************************************************************************)
(* Further properties of the relay                                          *)
(***************************************************************************)
\* C25: the Authorization credential of every upstream request is the key
\* held by the server, whatever bearer token and body the client sent.
C25_CredentialIsolation ==
  \A k \in 1..Len(upstreamReqs) :
    /\ upstreamReqs[k].authorization = <<BEARER, ApiKey>>
    /\ upstreamReqs[k].authorization # reqHeader

C25_Witness ==
  /\ reqHeader = <<BEARER, OtherGoodToken>>
  /\ reqBody.options.temperature = 5 /\ reqBody.options.max_tokens = 100
  /\ Len(upstreamReqs) = 1
  /\ upstreamReqs[1].authorization = <<BEARER, ApiKey>>

(***************************************************************************)
(* Further properties of decryptPromptMessages                              *)
(***************************************************************************)
\* C26 as stated: decryptText is applied at most 3 times to the content of
\* one prompt.
C26_AtMostThreeDecrypts == \A i \in Positions : decryptCalls[i] <= 3

\* C26 amended: decryptText is applied at most 4 times to the content of one
\* prompt, once before the loop and at most 3 times inside it, and the call
\* for a prompt that needed all 4 still returns.
C26_AtMostFourDecrypts ==
  /\ \A i \in Positions : decryptCalls[i] <= 4
  /\ decryptAttempts <= 3
  /\ rwPc = "nested" => (ENABLED RwDecryptNested \/ ENABLED RwDecryptEnd)

C26_Witness ==
  /\ rwPc = "done"
  /\ \E i \in Positions :
       /\ decryptCalls[i] = 4 /\ Rewritten(i)
       /\ RefersToNested(i, MaxLayers) /\ StartsWith(injected[i], U2F)

\* position i is a system message with the sentinel whose id, prompt, user
\* and decryption are all there
CanRewrite(i) ==
  /\ messages[i].role = "system" /\ Includes(messages[i].content, SENT)
  /\ ~MustFallBack(i)

\* C27: the output has the length of the input; position i holds input
\* message i unchanged or its rewrite with role system; and whatever happened
\* at the other positions, a message that can be rewritten is rewritten and
\* the call returns.
C27_PerMessageIsolation ==
  /\ Len(decryptedMessages) <= Len(messages)
  /\ rwPc = "done" => Len(decryptedMessages) = Len(messages)
  /\ \A i \in 1..Len(decryptedMessages) :
       \/ decryptedMessages[i] = messages[i]
       \/ /\ Rewritten(i)
          /\ decryptedMessages[i].role = "system"
          /\ decryptedMessages[i].content = FinalContent(messages[i].content, injected[i])
  /\ \A i \in Positions :
       /\ (Settled(i) /\ CanRewrite(i)) => Rewritten(i)
       /\ (Settled(i) /\ ~CanRewrite(i)) => decryptedMessages[i] = messages[i]
  /\ rwPc = "catch" => ENABLED RwCatch

C27_Witness ==
  /\ rwPc = "done" /\ Len(messages) = 2
  /\ outcome[1] = "fallback" /\ decryptedMessages[1] = messages[1]
  /\ outcome[2] = "legacy" /\ decryptedMessages[2] # messages[2]

\* number of punctuation guard blocks in s, in the closed form and in the
\* form the rewriter writes
GuardBlocks(s) ==
  Cardinality({k \in 1..Len(s) : HasAt(s, <<RULE2, PUNCTTEXT, RULE2>>, k)})
    + Cardinality({k \in 1..Len(s) :
                     s[k] = RULE2 /\ \E j \in (k + 1)..Len(s) : s[j] = RULE2END})

\* C28: a new-format rewrite adds the guard block exactly when the message
\* carries none; a message that carries one, also in the form the rewriter
\* writes, gets no second one.
C28_GuardSynthesizedOnce ==
  \A i \in Positions :
    (outcome[i] = "new" /\ ~Includes(injected[i], RULE2)) =>
      /\ GuardBlocks(messages[i].content) = 0 =>
           GuardBlocks(decryptedMessages[i].content) = 1
      /\ GuardBlocks(messages[i].content) > 0 =>
           GuardBlocks(decryptedMessages[i].content) = GuardBlocks(messages[i].content)

Malformed(line) == line = <<DATA, GARBAGE>>

HasMalformed(lines) == \E k \in 1..Len(lines) : Malformed(lines[k])

\* a malformed line with a well-formed event somewhere after it
MalformedThenEvent(lines, isEvent(_)) ==
  \E j, k \in 1..Len(lines) : j < k /\ Malformed(lines[j]) /\ isEvent(lines[k])

C30_WitnessGenerate ==
  /\ ReadComplete /\ entry = "generate"
  /\ MalformedThenEvent(cLines, IsContentEvent)
  /\ dResult.value # <<>>

C30_WitnessGenerateStream ==
  /\ ReadComplete /\ entry = "generateStream"
  /\ MalformedThenEvent(cLines, IsContentEvent)
  /\ chunks # <<>>
(***************************************************************************)
(* Further properties of the dispatcher                                     *)
(***************************************************************************)
\* the rules in the order the specification lists them: credential
\* configuration, authentication failure, rate limiting, content length,
\* network or timeout
ErrorRules ==
  << [keys |-> {KeyNotConfigured, KeyNotConfiguredZh}, category |-> MsgKeyNotConfigured],
     [keys |-> {KeyAuthFailed, KeyAuthentication}, category |-> MsgAuthFailed],
     [keys |-> {KeyTooFrequent, Key429}, category |-> MsgTooFrequent],
     [keys |-> {KeyToken, KeyContextLength}, category |-> MsgTooLong],
     [keys |-> {KeyNetwork, KeyTimeout, KeyFetchFailed}, category |-> MsgNetwork] >>

RuleMatches(text, r) == \E k \in ErrorRules[r].keys : \E i \in 1..Len(text) : text[i] = k

MatchingRules(text) == {r \in 1..Len(ErrorRules) : RuleMatches(text, r)}

FirstMatch(text) ==
  IF MatchingRules(text) = {} THEN <<MsgFallbackPrefix>> \o text
  ELSE ErrorRules[CHOOSE r \in MatchingRules(text) :
                    \A q \in MatchingRules(text) : r <= q].category

\* the call ended in the catch block and handleAIError translated the error
Translated ==
  /\ dPc = "done" /\ dResult.kind = "throw"
  /\ dError # NoError /\ ~RethrowsAbort(dError)

\* C31: the message a call throws for a caught error is the category of the
\* first rule, in the fixed order, one of whose substrings occurs in the
\* error text, and the fallback prefix followed by the raw text when no rule
\* matches.
C31_FirstMatchTranslation ==
  Translated => dResult.value = FirstMatch(dError.message)

C31_Witness ==
  /\ Translated
  /\ dError.message = <<KeyToken, KeyAuthentication>>
  /\ Cardinality(MatchingRules(dError.message)) = 2
  /\ dResult.value = MsgAuthFailed
(***************************************************************************)
(* Properties of both layers                                                *)
(***************************************************************************)
\* the upstream call of a relay request failed: fetch threw, upstream
\* answered with an error status, or a read of the stream rejected
UpstreamFailed ==
  \/ raised \in {"fetch", "stream"}
  \/ (upstreamStatus # 0 /\ ~IsOk(upstreamStatus))

\* the POST or the stream read of a dispatcher call failed
CallFailed == dError # NoError

\* C32: one call of generate or generateStream sends at most one POST and one
\* relay request sends at most one upstream request; once the upstream call,
\* the POST or a stream read has failed, no further request is sent, and the
\* finished request or call reports the failure (an error response or an
\* errored stream for the relay, a thrown error for the dispatcher).
C32_NoRetries ==
  /\ [](Len(posts) <= 1 /\ Len(upstreamReqs) <= 1)
  /\ [][(CallFailed => posts' = posts)
          /\ (UpstreamFailed => upstreamReqs' = upstreamReqs)]_vars
  /\ []((relayPc = "done" /\ UpstreamFailed) =>
           \/ (relayStatus >= 400 /\ relayError # <<>>)
           \/ outState = "errored")
  /\ []((dPc = "done" /\ CallFailed) => dResult.kind = "throw")

C32_Witness ==
  /\ dPc = "done" /\ CallFailed
  /\ entry = "generateStream"
  /\ respStatus = 500
  /\ Len(posts) = 1
  /\ dResult.kind = "throw"
(***************************************************************************)
(* Frame of decryptPromptMessages                                           *)
(***************************************************************************)
\* C33: decryptPromptMessages never changes its input: no step of a call
\* changes the input list, its length, or the role or content of an input
\* message; the result is built in a list of its own, and at a rewritten
\* position the input message still carries its reference while the output
\* holds a different message.
C33_InputUntouched ==
  /\ [][messages' = messages]_vars
  /\ [](\A i \in Positions : Rewritten(i) =>
          /\ Includes(messages[i].content, SENT)
          /\ decryptedMessages[i] # messages[i])

C33_Witness ==
  /\ rwPc = "done"
  /\ Len(messages) = 2
  /\ Rewritten(1) /\ Rewritten(2)
  /\ Includes(messages[1].content, SENT)
  /\ ~Includes(decryptedMessages[1].content, SENT)
(***************************************************************************)
(* Properties of both stream readers under arbitrary reads                  *)
(***************************************************************************)
\* the response of a dispatcher call was read to its end, in reads of any sizes
ReadToEnd == dPc = "done" /\ dResult.kind = "return" /\ respStatus = 200 /\ cEnd = "done"

\* C34: what the relay emits and what generate accumulates or generateStream
\* passes to onChunk depends only on the content of the incoming stream: for
\* every way of cutting the stream into reads, also inside a data line, the
\* relay emits the events of all content lines before [DONE], and the
\* dispatcher delivers the deltas of all content events.
C34_ChunkBoundaryIndependence ==
  /\ StreamEnded => out = Reframed(UntilDone(upLines))
  /\ ReadToEnd =>
       /\ entry = "generate" => dResult.value = Flatten(Deltas(cLines))
       /\ entry = "generateStream" => chunks = Deltas(cLines)
(***************************************************************************)
(* Output stream of the relay                                               *)
(***************************************************************************)
\* a is b with some elements left out
RECURSIVE IsSubsequence(_, _)
IsSubsequence(a, b) ==
  IF a = <<>> THEN TRUE
  ELSE IF b = <<>> THEN FALSE
  ELSE IF Head(a) = Head(b) THEN IsSubsequence(Tail(a), Tail(b))
  ELSE IsSubsequence(a, Tail(b))

OutputEnded == outState \in {"closed", "errored"}

\* C35: the relay's output stream is closed or errored at most once, nothing
\* is enqueued after it has ended, and the events emitted are events of
\* content lines that upstream sent before the [DONE] line, never of a line
\* sent after it.
C35_OutputDiscipline ==
  /\ [][OutputEnded => (outState' = outState /\ out' = out)]_vars
  /\ [](IsSubsequence(out, Reframed(UntilDone(upLines))))

\* the first two clauses alone
C35_EndedOnce == [][OutputEnded => (outState' = outState /\ out' = out)]_vars
(***************************************************************************)
(* The prompt page and the rewriter's resolver                              *)
(***************************************************************************)
\* lines 109-118 of AIserver.ts as a function: one decryption, then the loop
RECURSIVE RewriterLoop(_, _, _)
RewriterLoop(c, key, attempts) ==
  IF NestedLoopGuard(c, attempts)
  THEN RewriterLoop(DecryptText(c, key, "noop").val, key, attempts + 1)
  ELSE c

RewriterResolve(c, key) == RewriterLoop(DecryptText(c, key, "noop").val, key, 0)

\* record k was added with plaintext and since then only saved from the page
AddedThenSaved(k) ==
  /\ ~pageHistory[k].direct
  /\ IsPlaintext(pageHistory[k].added)

\* C36: after addPrompt of plaintext P and any number of edit-and-save cycles
\* of the prompt page that leave the content as loaded, the stored content
\* has no more layers than the rewriter's resolver unwinds: what the resolver
\* makes of the stored content is P.
C36_NestingStaysRecoverable ==
  \A k \in 1..Len(db) :
    AddedThenSaved(k) =>
      RewriterResolve(db[k].content, GenerateEncryptionKey(repoUser)) = pageHistory[k].added
(***************************************************************************)
(* Numeric options through both layers                                      *)
(***************************************************************************)
\* the value a request must carry for an option: the caller's value when the
\* field is present, the default when it is absent
Supplied(v, default) == IF v = Absent THEN default ELSE v

\* C37: the temperature and max_tokens of every POST of the dispatcher and of
\* every upstream request of the relay are the values the caller supplied,
\* the value 0 included; the defaults 0.7 (7 tenths) and 4096 appear only
\* where the field is absent.
C37_ExplicitOptionsSurvive ==
  /\ \A k \in 1..Len(posts) :
       /\ posts[k].options.temperature = Supplied(options.temperature, 7)
       /\ posts[k].options.max_tokens = Supplied(options.max_tokens, 4096)
  /\ \A k \in 1..Len(upstreamReqs) :
       /\ upstreamReqs[k].temperature = Supplied(reqBody.options.temperature, 7)
       /\ upstreamReqs[k].max_tokens = Supplied(reqBody.options.max_tokens, 4096)
(***************************************************************************)
(* Order of the steps of generate and generateStream                        *)
(***************************************************************************)
\* C38: in both entry points the credential is requested only after the
\* rewriter has returned, a POST is sent only after the credential was
\* obtained, the messages of the POST are the rewriter's output, one output
\* message per input message, and a call that cannot obtain the credential
\* sends no POST.
C38_StepOrder ==
  /\ tokenCalls > 0 => rwPc = "done"
  /\ posts # <<>> => (tokenCalls > 0 /\ sessionToken # <<>>)
  /\ \A k \in 1..Len(posts) :
       /\ posts[k].messages = decryptedMessages
       /\ Len(posts[k].messages) = Len(messages)
       /\ posts[k].authorization = <<BEARER>> \o sessionToken
  /\ sessionToken = <<>> => posts = <<>>

C38_Witness ==
  /\ entry = "generateStream"
  /\ Len(posts) = 1 /\ tokenCalls = 1 /\ rwPc = "done"
  /\ Len(messages) = 2 /\ Rewritten(1)
  /\ posts[1].messages = decryptedMessages
  /\ posts[1].messages # messages

\* a call without a session: the rewriter ran, the credential was asked for
\* once, and nothing was posted
C38_WitnessNoCredential ==
  /\ dPc = "done" /\ sessionToken = <<>>
  /\ rwPc = "done" /\ tokenCalls = 1
  /\ posts = <<>> /\ dResult.kind = "throw"
(***************************************************************************)
(* Completion                                                               *)
(***************************************************************************)
\* upstream has put the [DONE] line into its body
DoneSent == \E k \in 1..Len(upLines) : upLines[k] = <<DATA, DONE>>

\* upstream ends its stream, fails, or has no body
UpstreamFinishes == upstreamEnd # "hang"

\* C39: when the upstream stream ends, fails or carries [DONE], the relay's
\* output stream is eventually closed or errored, and a generate or
\* generateStream call whose response stream ends or fails eventually returns
\* or throws.
C39_Completion ==
  /\ (relayPc = "reading" /\ (UpstreamFinishes \/ DoneSent)) ~> OutputEnded
  /\ (dPc = "read" /\ cEnd # "hang") ~> (dPc = "done")

\* the part that does not rest on the [DONE] line: an upstream that ends or
\* fails ends the relay's output, and a response that ends or fails ends the
\* call
C39_CompletionWhenStreamEnds ==
  /\ (relayPc = "reading" /\ UpstreamFinishes) ~> OutputEnded
  /\ (dPc = "read" /\ cEnd # "hang") ~> (dPc = "done")
====
